---- MODULE Spec2Model ----
(***************************************************************************)
(* Model of the Alloy dispatcher backend (src/backend/main.py): the        *)
(* in-memory JOB_STORE, the /dispatch webhook, the /contractor-reply       *)
(* webhook and the read-only endpoints, as a state machine.                *)
(*                                                                         *)
(* Handlers are FastAPI coroutines.  dispatch and contractor_reply contain *)
(* exactly one await (request.json()) as their first statement; everything *)
(* after it is synchronous code (requests.* calls block the event loop),   *)
(* so the body of a handler runs as one atomic step, and several handlers  *)
(* can be parked on their await at the same time.                          *)
(***************************************************************************)
EXTENDS Integers, Sequences, FiniteSets, TLC

(***************************************************************************)
(* Bounds of the model.                                                    *)
(***************************************************************************)
\* number of request handlers that can be in flight at the same time
MaxInflight == 2
\* largest clock reading (in half seconds) datetime.utcnow() can return
MaxTime == 1

(***************************************************************************)
(* Python values.                                                          *)
(***************************************************************************)
\* Python's None (for values that are otherwise strings)
None == "<None>"

\* truthiness of an optional string: `if v`
Truthy(v) == v # None /\ v # ""

\* `a or b` on optional strings
Or(a, b) == IF Truthy(a) THEN a ELSE b

(***************************************************************************)
(* Text.  A message text is a sequence of one-character strings, so that   *)
(* str.strip, str.upper and str.split are computed, not assumed.           *)
(***************************************************************************)
LowerCase == <<"a","b","c","d","e","f","g","h","i","j","k","l","m",
               "n","o","p","q","r","s","t","u","v","w","x","y","z">>
UpperCase == <<"A","B","C","D","E","F","G","H","I","J","K","L","M",
               "N","O","P","Q","R","S","T","U","V","W","X","Y","Z">>

\* str.isspace for one character
IsSpace(c) == c \in {" ", "\t", "\n"}

\* str.upper for one character
UpperChar(c) ==
    IF \E i \in 1..Len(LowerCase) : LowerCase[i] = c
    THEN UpperCase[CHOOSE i \in 1..Len(LowerCase) : LowerCase[i] = c]
    ELSE c

\* str.upper
Upper(s) == [i \in 1..Len(s) |-> UpperChar(s[i])]

RECURSIVE LStrip(_)
LStrip(s) == IF s # <<>> /\ IsSpace(Head(s)) THEN LStrip(Tail(s)) ELSE s

RECURSIVE RStrip(_)
RStrip(s) ==
    IF s # <<>> /\ IsSpace(s[Len(s)]) THEN RStrip(SubSeq(s, 1, Len(s) - 1)) ELSE s

\* str.strip()
Strip(s) == RStrip(LStrip(s))

\* the first whitespace-free run of s (s does not start with whitespace)
RECURSIVE FirstWord(_)
FirstWord(s) ==
    IF s = <<>> \/ IsSpace(Head(s)) THEN <<>> ELSE <<Head(s)>> \o FirstWord(Tail(s))

\* str.split(): the maximal whitespace-free runs, in order
RECURSIVE Split(_)
Split(s) ==
    LET t == LStrip(s)
        w == FirstWord(t)
    IN  IF t = <<>> THEN <<>>
        ELSE <<w>> \o Split(SubSeq(t, Len(w) + 1, Len(t)))

\* the Python string a sequence of characters spells
RECURSIVE Str(_)
Str(s) == IF s = <<>> THEN "" ELSE Head(s) \o Str(Tail(s))

\* str.strip() of an optional JSON string given as characters, `or None`
StripOrNone(s) == IF Str(Strip(s)) = "" THEN None ELSE Str(Strip(s))

(***************************************************************************)
(* Time.  datetime.utcnow().isoformat(): fixed-width fields, and the       *)
(* fraction ".ffffff" only when the microsecond is not 0.                  *)
(***************************************************************************)
Digit(n) == <<"0","1","2","3","4","5","6","7","8","9">>[n + 1]

\* a clock reading t counts half seconds
isoformat(t) ==
    LET sec == t \div 2
        base == <<Digit(sec \div 10), Digit(sec % 10)>>
    IN  IF t % 2 = 0 THEN base
        ELSE base \o <<".", "5", "0", "0", "0", "0", "0">>

\* code point order of the characters of a timestamp
Ord(c) == IF c = "." THEN 46 ELSE 48 + (CHOOSE n \in 0..9 : Digit(n) = c)

\* Python's str `<`
RECURSIVE StrLess(_, _)
StrLess(a, b) ==
    IF b = <<>> THEN FALSE
    ELSE IF a = <<>> THEN TRUE
    ELSE IF Head(a) # Head(b) THEN Ord(Head(a)) < Ord(Head(b))
    ELSE StrLess(Tail(a), Tail(b))

(***************************************************************************)
(* The external world: the contractor directory, bookings and replies.     *)
(***************************************************************************)
\* absent JSON text (None), for values that are otherwise character sequences
NoneText == <<None>>

cX == [id |-> "X", name |-> "Xavier", phone |-> "+16025550001"]
cY == [id |-> "Y", name |-> "Yolanda", phone |-> "+16025550002"]
\* a directory entry without a phone, and one without an id
cNoPhone == [id |-> "Z", name |-> "Zed", phone |-> None]
cNoId == [id |-> None, name |-> "Nobody", phone |-> "+16025550003"]

\* what fetch_contractors can return (the eligible list is fetched afresh by
\* every operation; a failed fetch returns the empty list)
Directories == { <<>>, <<cX, cNoPhone, cNoId, cY>> }

\* the fields of a booking payload besides calendar.appointmentId and
\* contact_id: the customer's name, calendar.startTime, the price the payload
\* resolves to (in cents), whether its price breakdown mentions "Deep", and the
\* home access answers
Detailed ==
    [full_name |-> "Ann Lee", startTime |-> "2025-01-06T09:00:00",
     price |-> 12050, deep |-> TRUE,
     access_method |-> "Lockbox", access_notes |-> "Code 4321"]

Sparse ==
    [full_name |-> "", startTime |-> None, price |-> 0, deep |-> FALSE,
     access_method |-> "", access_notes |-> ""]

\* a booking: the identifying fields and the rest
Booking(appointmentId, contact_id, rest) ==
    [appointmentId |-> appointmentId, contact_id |-> contact_id,
     full_name |-> rest.full_name, startTime |-> rest.startTime,
     price |-> rest.price, deep |-> rest.deep,
     access_method |-> rest.access_method, access_notes |-> rest.access_notes]

\* booking payloads
Bookings ==
    { Booking("A1", "C", Detailed),
      Booking("A2", None, Sparse),
      Booking(None, "C", Detailed),
      Booking("", "C", Sparse) }

JobIds == {b.appointmentId : b \in {b \in Bookings : Truthy(b.appointmentId)}}

\* reply texts
Texts ==
    { <<"Y","E","S"," ","A","1">>,
      <<"y","e","s"," "," ","A","2">>,
      <<" ","Y","e","s","\t","A","1"," ","o","k">>,
      <<"Y","E","S"," ","a","1">>,
      <<" ","y","e","s"," ">>,
      <<"Y","e","p">>,
      <<"m","a","y","b","e">>,
      <<>> }

\* contractor-reply payloads: contact_id, customData.body, customData.job_id,
\* and "message", which is an object with a body, a plain string, or absent
ReplyPayloads ==
    { [contact_id |-> c, custom_body |-> NoneText, custom_job_id |-> NoneText,
       message_kind |-> "object", message |-> m] :
          c \in {"X", "Y"}, m \in Texts }
    \cup
    { [contact_id |-> None, custom_body |-> NoneText, custom_job_id |-> NoneText,
       message_kind |-> "object", message |-> m] :
          m \in { <<"Y","E","S"," ","A","1">>, <<" ","y","e","s"," ">> } }
    \cup
    { [contact_id |-> "Y", custom_body |-> NoneText, custom_job_id |-> j,
       message_kind |-> "object", message |-> m] :
          j \in { <<" ","A","2"," ">>, <<" ">> },
          m \in { <<"Y","E","S"," ","A","1">>, <<" ","y","e","s"," ">>,
                  <<"m","a","y","b","e">> } }
    \cup
    { [contact_id |-> "Y", custom_body |-> <<"Y","E","S"," ","A","1">>,
       custom_job_id |-> NoneText, message_kind |-> "string",
       message |-> <<"m","a","y","b","e">>],
      [contact_id |-> "Y", custom_body |-> NoneText, custom_job_id |-> NoneText,
       message_kind |-> "string", message |-> <<"Y","E","S"," ","A","1">>],
      [contact_id |-> "X", custom_body |-> NoneText, custom_job_id |-> NoneText,
       message_kind |-> "absent", message |-> NoneText] }

\* the bookings and replies of the interleaved specification
RaceBookings == { Booking("A1", "C", Detailed) }

RacePayloads ==
    { [contact_id |-> c, custom_body |-> NoneText, custom_job_id |-> NoneText,
       message_kind |-> "object", message |-> m] :
          c \in {"X", "Y"},
          m \in { <<"Y","E","S"," ","A","1">>, <<" ","y","e","s"," ">> } }

\* what the Jobs write-back can meet: no record for the job, a failed PUT, success
CrmOutcomes == {"not_found", "failed", "ok"}

\* the same, and a record search that answers 2xx with a body that is not a
\* JSON object: find_job_record_id reads it with resp.json() and data.get
\* outside its try block, so the exception leaves the handler
CrmFaults == CrmOutcomes \cup {"raises"}

\* the contacts a message can be sent to: the reachable contractors and the
\* customer
Recipients == {"X", "Y", "C"}

\* how one send_conversation_sms call can end: HTTP 201, another status, or an
\* exception of requests.post (a timeout is one)
SendOutcomes == {"201", "500", "exception"}

\* the messaging API during one handler run: the outcome per recipient
NoFault == [r \in Recipients |-> "201"]

SendFaults == [Recipients -> SendOutcomes]

Slots == 1..MaxInflight
Times == 0..MaxTime

VARIABLES
    JOB_STORE,   \* the in-memory job store: job_id -> job summary
    jobKeys,     \* the insertion order of JOB_STORE's keys (a Python dict)
    clock,       \* the latest reading of datetime.utcnow()
    pc,          \* per handler slot: "idle", or the handler parked on its await
    racing,      \* history: per job, the reply handlers that were parked when
                 \* the job's assignment was first written and are still parked
    request,     \* the payload of the handler body that ran last
    response,    \* the response that body returned
    outbox,      \* the messages that body sent, in order
    crm          \* the CRM work of that body: the Jobs write-back of a reply, or
                 \* the contact search of a quote lookup

vars == <<JOB_STORE, jobKeys, clock, pc, racing, request, response, outbox, crm>>

(***************************************************************************)
(* Responses, messages and the job store.                                  *)
(***************************************************************************)
\* a JSON response; the fields an endpoint does not set are None
NoResponse ==
    [op |-> "none", http |-> 200, ok |-> FALSE, reason |-> None, job_id |-> None,
     contractor_id |-> None, contractor_name |-> None, notified |-> <<>>,
     job |-> [job_id |-> None]]

NoRequest == [kind |-> "none"]

\* what upsert_job_assignment_to_ghl did; "none": it was not called.  `after`
\* is the number of messages the handler had sent when it made the call.
NoCrm ==
    [result |-> "none", job_id |-> None, contractor_id |-> None,
     contractor_name |-> None, after |-> 0]

\* one send_conversation_sms call: the recipient, the message (which of the
\* handlers' messages it is, for which job, and its text as the sequence of the
\* literal and interpolated pieces of the f-string), and how the call ended
Sms(to, kind, job_id, text, status) ==
    [to |-> to, kind |-> kind, job_id |-> job_id, text |-> text, status |-> status]

\* an optional string interpolated in an f-string
PyStr(v) == IF v = None THEN "None" ELSE v

\* the decimal digits of a natural number
RECURSIVE Decimal(_)
Decimal(n) ==
    IF n < 10 THEN <<Digit(n)>> ELSE Append(Decimal(n \div 10), Digit(n % 10))

\* the characters of f"{price:.2f}" for a price of whole cents
Format2fChars(cents) ==
    LET Unsigned(c) ==
            Decimal(c \div 100) \o <<".", Digit((c % 100) \div 10), Digit(c % 10)>>
    IN  IF cents < 0 THEN <<"-">> \o Unsigned(0 - cents) ELSE Unsigned(cents)

\* f"{price:.2f}"
Format2f(cents) == Str(Format2fChars(cents))

SERVICE_TYPE_STANDARD == "Standard Home Cleaning"
SERVICE_TYPE_DEEP == "Deep Cleaning"

\* JOB_STORE[k] = v
Put(store, k, v) ==
    [x \in (DOMAIN store) \cup {k} |-> IF x = k THEN v ELSE store[x]]

\* the key order of a dict after d[k] = v
PutKey(keys, k) ==
    IF \E i \in 1..Len(keys) : keys[i] = k THEN keys ELSE Append(keys, k)

\* the ids of a list of contractors, in order
RECURSIVE Ids(_)
Ids(cs) == IF cs = <<>> THEN <<>> ELSE <<Head(cs).id>> \o Ids(Tail(cs))

\* x in a Python list
InList(x, l) == \E i \in 1..Len(l) : l[i] = x

\* `if not cid or not phone: continue`
Reachable(c) == Truthy(c.id) /\ Truthy(c.phone)

(***************************************************************************)
(* dispatch                                                                *)
(***************************************************************************)
\* build_job_summary and the dispatch metadata
JobSummary(p, t) ==
    [job_id |-> p.appointmentId,
     customer_name |-> Or(p.full_name, "Unknown"),
     contact_id |-> p.contact_id,
     service_type |-> IF p.deep THEN SERVICE_TYPE_DEEP ELSE SERVICE_TYPE_STANDARD,
     estimated_price |-> p.price,
     start_time |-> p.startTime,
     access_method |-> p.access_method,
     access_notes |-> p.access_notes,
     notified_contractors |-> <<>>,
     assigned_contractor_id |-> None,
     assigned_contractor_name |-> None,
     dispatched_at |-> isoformat(t)]

\* the broadcast message: no access information
BroadcastText(job) ==
    << "New cleaning job available:\nCustomer: ", job.customer_name,
       "\nService: ", job.service_type,
       "\nWhen: ", Or(job.start_time, "TBD"),
       "\nEst. price: $", Format2f(job.estimated_price),
       "\n\nReply YES ", PyStr(job.job_id), " to accept." >>

\* the contractors the broadcast loop sends to and records, in order
Broadcast(contractors) == Ids(SelectSeq(contractors, Reachable))

\* the position of the first send that did not end with 201, or 0
FirstFailure(sent, f) ==
    LET failed == {i \in 1..Len(sent) : f[sent[i]] # "201"}
    IN  IF failed = {} THEN 0 ELSE CHOOSE i \in failed : \A j \in failed : i <= j

\* mutant of BroadcastSends: the loop is left at the first failed send
BroadcastSends_StopsAtFailure(job, sent, f) ==
    LET n == IF FirstFailure(sent, f) = 0 THEN Len(sent) ELSE FirstFailure(sent, f)
    IN  [i \in 1..n |->
            Sms(sent[i], "broadcast", job.job_id, BroadcastText(job), f[sent[i]])]

\* the send_conversation_sms calls of the broadcast loop: one per contractor
\* in `sent`, whatever the outcome of the calls before it
BroadcastSends(job, sent, f) ==
    [i \in 1..Len(sent) |->
        Sms(sent[i], "broadcast", job.job_id, BroadcastText(job), f[sent[i]])]

\* mutant of StoreJob: the store is rebuilt around the new job
StoreJob_Rebuilds(store, job) ==
    IF Truthy(job.job_id) THEN [x \in {job.job_id} |-> job] ELSE store

\* mutant of StoreJob: a job is stored only under an identifier that is new
StoreJob_OnlyNew(store, job) ==
    IF Truthy(job.job_id) /\ job.job_id \notin DOMAIN store
    THEN Put(store, job.job_id, job) ELSE store

\* mutant of StoreJob: the job is stored whether or not it has an identifier
StoreJob_Always(store, job) ==
    Put(store, job.job_id, job)

\* mutant of StoreJob: the job is stored once it has been broadcast
StoreJob_WhenNotified(store, job) ==
    IF Truthy(job.job_id) /\ job.notified_contractors # <<>>
    THEN Put(store, job.job_id, job) ELSE store

\* `if job_id: JOB_STORE[job_id] = job_summary`
StoreJob(store, job) ==
    IF Truthy(job.job_id) THEN Put(store, job.job_id, job) ELSE store

StoreKey(keys, job) ==
    IF Truthy(job.job_id) THEN PutKey(keys, job.job_id) ELSE keys

\* the body of dispatch on booking p, clock reading t, directory d and
\* messaging outcomes f
DispatchEffect(p, t, d, f) ==
    LET job0 == JobSummary(p, t)
        sent == IF d = <<>> THEN <<>> ELSE Broadcast(d)
        job == [job0 EXCEPT !.notified_contractors = sent]
    IN  [store |-> StoreJob(JOB_STORE, job),
         keys |-> StoreKey(jobKeys, job),
         outbox |-> BroadcastSends(job, sent, f),
         response |->
            IF d = <<>>
            THEN [NoResponse EXCEPT !.op = "dispatch", !.ok = FALSE,
                                    !.reason = "no_contractors",
                                    !.job_id = job.job_id, !.job = job]
            ELSE [NoResponse EXCEPT !.op = "dispatch", !.ok = TRUE,
                                    !.job_id = job.job_id, !.job = job,
                                    !.notified = sent]]

(***************************************************************************)
(* contractor_reply                                                        *)
(***************************************************************************)
TruthyText(t) == t # NoneText /\ t # <<>>

\* message_obj.get("body") on a payload whose "message" is a non-empty string
\* raises AttributeError, unless customData.body short-circuits the `or`
RawMessageRaises(p) ==
    /\ ~TruthyText(p.custom_body)
    /\ p.message_kind = "string"
    /\ TruthyText(p.message)

\* message_text
MessageText(p) ==
    IF TruthyText(p.custom_body) THEN p.custom_body
    ELSE IF p.message_kind = "object" /\ TruthyText(p.message) THEN p.message
    ELSE <<>>

\* customData.job_id, stripped, or None
ExplicitJobId(p) ==
    IF p.custom_job_id = NoneText THEN None ELSE StripOrNone(p.custom_job_id)

\* mutant of ParsedJobId: `parts[0] == "YES"`, without upper()
ParsedJobId_CaseSensitive(p) ==
    LET parts == Split(Strip(MessageText(p)))
        explicit == ExplicitJobId(p)
    IN  IF Truthy(explicit) THEN explicit
        ELSE IF Len(parts) >= 2 /\ Str(parts[1]) = "YES"
             THEN Or(Str(Strip(parts[2])), None)
        ELSE explicit

\* the job id before the store is consulted
ParsedJobId(p) ==
    LET parts == Split(Strip(MessageText(p)))
        explicit == ExplicitJobId(p)
    IN  IF Truthy(explicit) THEN explicit
        ELSE IF Len(parts) >= 2 /\ Str(Upper(parts[1])) = "YES"
             THEN Or(Str(Strip(parts[2])), None)
        ELSE explicit

\* mutant of IsAffirmative: any one-word text counts as an acceptance
IsAffirmative_AnyWord(p) ==
    Len(Split(Strip(MessageText(p)))) = 1

\* text_upper in ("YES", "Y", "YEA", "YEAH", "YEP")
IsAffirmative(p) ==
    Str(Upper(Strip(MessageText(p)))) \in {"YES", "Y", "YEA", "YEAH", "YEP"}

\* the stored jobs whose notified list holds the contact, in dict order
CandidateJobs(store, keys, contact_id) ==
    LET Notified(k) == Truthy(contact_id)
                       /\ InList(contact_id, store[k].notified_contractors)
    IN  SelectSeq(keys, Notified)

\* list.sort(key=dispatched_at) is stable: x goes behind every key <= its own
RECURSIVE InsertSorted(_, _, _)
InsertSorted(store, x, sorted) ==
    IF sorted = <<>> THEN <<x>>
    ELSE IF StrLess(store[x].dispatched_at, store[Head(sorted)].dispatched_at)
         THEN <<x>> \o sorted
    ELSE <<Head(sorted)>> \o InsertSorted(store, x, Tail(sorted))

RECURSIVE SortByDispatchedAt(_, _)
SortByDispatchedAt(store, ks) ==
    IF ks = <<>> THEN <<>>
    ELSE InsertSorted(store, ks[Len(ks)],
                      SortByDispatchedAt(store, SubSeq(ks, 1, Len(ks) - 1)))

\* mutant of LatestJob: candidate_jobs[0], the earliest dispatch
LatestJob_First(store, cands) ==
    LET sorted == SortByDispatchedAt(store, cands) IN sorted[1]

\* candidate_jobs[-1] after the sort
LatestJob(store, cands) ==
    LET sorted == SortByDispatchedAt(store, cands) IN sorted[Len(sorted)]

\* what the handler computes from the payload alone (lines 2215-2253)
ParseReply(p) ==
    [raises |-> RawMessageRaises(p),
     job_id |-> ParsedJobId(p),
     affirmative |-> IsAffirmative(p)]

\* ParseReply, tabulated over the payloads of the model
ParseTable == [p \in ReplyPayloads \cup RacePayloads |-> ParseReply(p)]

\* the resolution of a reply: how it ends and, when resolved, for which job
Resolve(p, store, keys) ==
    LET parsed == ParseTable[p]
        job_id == parsed.job_id
        found == Truthy(job_id) /\ job_id \in DOMAIN store
        cands == CandidateJobs(store, keys, p.contact_id)
    IN  IF parsed.raises THEN [reason |-> "exception", job_id |-> None]
        ELSE IF found THEN [reason |-> "resolved", job_id |-> job_id]
        ELSE IF ~parsed.affirmative
             THEN [reason |-> "invalid_format", job_id |-> None]
        ELSE IF cands = <<>>
             THEN [reason |-> "job_not_found_for_contractor", job_id |-> None]
        ELSE IF ~Truthy(LatestJob(store, cands))
             THEN [reason |-> "job_not_found", job_id |-> LatestJob(store, cands)]
        ELSE [reason |-> "resolved", job_id |-> LatestJob(store, cands)]

\* contractor_name: the first directory entry with the replier's id
ContractorName(contractors, contact_id) ==
    IF \E i \in 1..Len(contractors) : contractors[i].id = contact_id
    THEN contractors[CHOOSE i \in 1..Len(contractors) :
                        /\ contractors[i].id = contact_id
                        /\ \A j \in 1..(i - 1) : contractors[j].id # contact_id].name
    ELSE "Unknown contractor"

\* "Mark assignment in memory"
Assign(job, contact_id, contractor_name) ==
    [job EXCEPT !.assigned_contractor_id = contact_id,
                !.assigned_contractor_name = contractor_name]

\* confirm_msg: the access method, and the access notes when there are any
ConfirmText(job) ==
    << "You accepted this job:\nCustomer: ", job.customer_name,
       "\nWhen: ", PyStr(job.start_time),
       "\nEst. price: $", Format2f(job.estimated_price),
       "\nEntry: ", Or(job.access_method, "Not specified"), "\n" >>
    \o (IF Truthy(job.access_notes)
        THEN << "Notes: ", job.access_notes, "\n" >> ELSE <<>>)
    \o << "\nWe'll share final details in your Alloy dashboard." >>

ClaimedText(job) ==
    << "Job for ", job.customer_name, " on ", PyStr(job.start_time),
       " has been claimed by another contractor." >>

CustomerText(job) ==
    << "Your cleaning on ", PyStr(job.start_time),
       " has been assigned to one of our partner teams. They will contact you before arrival." >>

\* 1) the confirmation to the accepting contractor
ConfirmSms(job, contact_id, f) ==
    IF Truthy(contact_id)
    THEN <<Sms(contact_id, "confirm", job.job_id, ConfirmText(job), f[contact_id])>>
    ELSE <<>>

\* mutant of ClaimedSms: the accepting contractor is not left out
ClaimedSms_ToAll(job, contractors, contact_id, f) ==
    LET others == Ids(SelectSeq(contractors, Reachable))
    IN  [i \in 1..Len(others) |->
            Sms(others[i], "claimed", job.job_id, ClaimedText(job), f[others[i]])]

\* 2) "claimed by another contractor", to every other reachable contractor
ClaimedSms(job, contractors, contact_id, f) ==
    LET Other(c) == Reachable(c) /\ c.id # contact_id
        others == Ids(SelectSeq(contractors, Other))
    IN  [i \in 1..Len(others) |->
            Sms(others[i], "claimed", job.job_id, ClaimedText(job), f[others[i]])]

\* 3) the customer notification
CustomerSms(job, f) ==
    IF Truthy(job.contact_id)
    THEN <<Sms(job.contact_id, "customer", job.job_id, CustomerText(job),
               f[job.contact_id])>>
    ELSE <<>>

\* 4) upsert_job_assignment_to_ghl(job_id, contact_id or "", contractor_name or "")
Upsert(job_id, contractor_id, contractor_name, outcome) ==
    [result |-> IF ~Truthy(job_id) \/ ~Truthy(contractor_id) THEN "skipped"
                ELSE outcome,
     job_id |-> job_id,
     contractor_id |-> contractor_id,
     contractor_name |-> contractor_name,
     after |-> 0]

\* mutant of ReplySms: the customer is told before the other contractors
ReplySms_CustomerFirst(job, contractors, contact_id, f) ==
    ConfirmSms(job, contact_id, f) \o CustomerSms(job, f)
        \o ClaimedSms(job, contractors, contact_id, f)

\* the messages of an accepted reply, in the order the code sends them
ReplySms(job, contractors, contact_id, f) ==
    ConfirmSms(job, contact_id, f) \o ClaimedSms(job, contractors, contact_id, f)
        \o CustomerSms(job, f)

\* the body of contractor_reply once the job is resolved
AcceptEffect(p, job_id, d, o, f) ==
    LET name == ContractorName(d, p.contact_id)
        job == Assign(JOB_STORE[job_id], p.contact_id, name)
    IN  [store |-> [JOB_STORE EXCEPT ![job_id] = job],
         outbox |-> ReplySms(job, d, p.contact_id, f),
         crm |-> [Upsert(job_id, Or(p.contact_id, ""), Or(name, ""), o)
                     EXCEPT !.after = Len(ReplySms(job, d, p.contact_id, f))],
         response |->
            IF Upsert(job_id, Or(p.contact_id, ""), Or(name, ""), o).result = "raises"
            THEN [NoResponse EXCEPT !.op = "contractor_reply", !.http = 500]
            ELSE [NoResponse EXCEPT !.op = "contractor_reply", !.ok = TRUE,
                                    !.job_id = job_id,
                                    !.contractor_id = p.contact_id,
                                    !.contractor_name = name]]

\* the body of contractor_reply when it returns early (or raises)
RejectEffect(p, res) ==
    [store |-> JOB_STORE,
     outbox |-> <<>>,
     crm |-> NoCrm,
     response |->
        IF res.reason = "exception"
        THEN [NoResponse EXCEPT !.op = "contractor_reply", !.http = 500]
        ELSE [NoResponse EXCEPT !.op = "contractor_reply", !.ok = FALSE,
                                !.reason = res.reason,
                                !.job_id = res.job_id,
                                !.contractor_id =
                                    IF res.reason = "job_not_found_for_contractor"
                                    THEN p.contact_id ELSE None]]

(***************************************************************************)
(* The state machine.                                                      *)
(***************************************************************************)
Init ==
    /\ JOB_STORE = [k \in {} |-> None]
    /\ jobKeys = <<>>
    /\ clock = 0
    /\ pc = [r \in Slots |-> "idle"]
    /\ racing = [j \in JobIds |-> {}]
    /\ request = NoRequest
    /\ response = NoResponse
    /\ outbox = <<>>
    /\ crm = NoCrm

\* no handler body has run since the last response was sent
Ready == request = NoRequest

\* the response of the handler that ran last is sent and its locals are dropped
respond ==
    /\ ~Ready
    /\ request' = NoRequest
    /\ response' = NoResponse
    /\ outbox' = <<>>
    /\ crm' = NoCrm
    /\ UNCHANGED <<JOB_STORE, jobKeys, clock, pc, racing>>

\* POST /dispatch, from the payload to the response.  The request records
\* the payload and the list fetch_contractors returned to the handler.
DispatchBody(bookings, faults) ==
    /\ Ready
    /\ \E p \in bookings, t \in clock..MaxTime, d \in Directories, f \in faults :
        LET e == DispatchEffect(p, t, d, f) IN
        /\ JOB_STORE' = e.store
        /\ jobKeys' = e.keys
        /\ clock' = t
        /\ request' = [kind |-> "dispatch", payload |-> p, contractors |-> d]
        /\ response' = e.response
        /\ outbox' = e.outbox
        /\ crm' = NoCrm

\* POST /contractor-reply, from the payload to the response.  A handler that
\* returns before its fetch_contractors call records the empty list.
ReplyBody(payloads, faults, crms) ==
    /\ Ready
    /\ \E p \in payloads :
        LET res == Resolve(p, JOB_STORE, jobKeys) IN
        /\ jobKeys' = jobKeys
        /\ clock' = clock
        /\ IF res.reason = "resolved"
           THEN \E d \in Directories, o \in crms, f \in faults :
                   LET e == AcceptEffect(p, res.job_id, d, o, f) IN
                   /\ request' = [kind |-> "contractor_reply", payload |-> p,
                                  contractors |-> d]
                   /\ JOB_STORE' = e.store
                   /\ response' = e.response
                   /\ outbox' = e.outbox
                   /\ crm' = e.crm
           ELSE LET e == RejectEffect(p, res) IN
                   /\ request' = [kind |-> "contractor_reply", payload |-> p,
                                  contractors |-> <<>>]
                   /\ JOB_STORE' = e.store
                   /\ response' = e.response
                   /\ outbox' = e.outbox
                   /\ crm' = e.crm

\* Requests handled one at a time.  A handler's await is its first statement
\* and nothing else yields, so every run of the server is a sequence of whole
\* handler bodies.
dispatch ==
    /\ DispatchBody(Bookings, {NoFault})
    /\ UNCHANGED <<pc, racing>>

contractor_reply ==
    /\ ReplyBody(ReplyPayloads, {NoFault}, CrmOutcomes)
    /\ UNCHANGED <<pc, racing>>

\* GET /debug/jobs: reads the store
debug_jobs ==
    /\ Ready
    /\ request' = [kind |-> "debug_jobs"]
    /\ response' = [NoResponse EXCEPT !.op = "debug_jobs", !.ok = TRUE,
                                      !.notified = jobKeys]
    /\ outbox' = <<>>
    /\ crm' = NoCrm
    /\ UNCHANGED <<JOB_STORE, jobKeys, clock, pc, racing>>

\* the statuses GET /quote/cleaning answers with
QuoteStatuses == {"ready", "pending", "not_found", "error"}

\* GET /quote/cleaning: the status is decided by the CRM's data for the phone
\* alone; the handler neither reads nor writes the job store
get_cleaning_quote ==
    /\ Ready
    /\ \E status \in QuoteStatuses :
          /\ request' = [kind |-> "get_cleaning_quote"]
          /\ response' = [NoResponse EXCEPT !.op = "get_cleaning_quote",
                                            !.reason = status]
    /\ outbox' = <<>>
    /\ crm' = NoCrm
    /\ UNCHANGED <<JOB_STORE, jobKeys, clock, pc, racing>>

Next ==
    \/ dispatch
    \/ contractor_reply
    \/ debug_jobs
    \/ get_cleaning_quote
    \/ respond

Spec == Init /\ [][Next]_vars

(***************************************************************************)
(* The same handlers with their awaits: a handler is entered, parks on     *)
(* `await request.json()`, and its body runs when the event loop resumes   *)
(* it; handlers parked at the same time are resumed in any order.          *)
(***************************************************************************)
dispatch_await(r) ==
    /\ pc[r] = "idle"
    /\ pc' = [pc EXCEPT ![r] = "dispatch"]
    /\ UNCHANGED <<JOB_STORE, jobKeys, clock, racing, request, response, outbox, crm>>

contractor_reply_await(r) ==
    /\ pc[r] = "idle"
    /\ pc' = [pc EXCEPT ![r] = "contractor_reply"]
    /\ UNCHANGED <<JOB_STORE, jobKeys, clock, racing, request, response, outbox, crm>>

\* the handlers other than r that are parked in contractor_reply
ParkedReplies(r) == {s \in Slots \ {r} : pc[s] = "contractor_reply"}

dispatch_resume(r) ==
    /\ pc[r] = "dispatch"
    /\ DispatchBody(RaceBookings, {NoFault})
    /\ pc' = [pc EXCEPT ![r] = "idle"]
    /\ racing' = [j \in JobIds |->
                    IF j = response'.job_id THEN {} ELSE racing[j] \ {r}]

contractor_reply_resume(r) ==
    /\ pc[r] = "contractor_reply"
    /\ ReplyBody(RacePayloads, {NoFault}, CrmOutcomes)
    /\ pc' = [pc EXCEPT ![r] = "idle"]
    /\ racing' = [j \in JobIds |->
                    IF /\ response'.ok
                       /\ j = response'.job_id
                       /\ JOB_STORE[j].assigned_contractor_id = None
                    THEN ParkedReplies(r)
                    ELSE racing[j] \ {r}]

NextConcurrent ==
    \/ \E r \in Slots : dispatch_await(r)
    \/ \E r \in Slots : dispatch_resume(r)
    \/ \E r \in Slots : contractor_reply_await(r)
    \/ \E r \in Slots : contractor_reply_resume(r)
    \/ respond

SpecConcurrent == Init /\ [][NextConcurrent]_vars

(***************************************************************************)
(* The handlers, one at a time, while the collaborators fail: every        *)
(* send_conversation_sms call of a handler run can end with 201, with      *)
(* another status or with an exception, and the Jobs write-back can meet   *)
(* every answer of the CRM.                                                *)
(***************************************************************************)
dispatch_faulty ==
    /\ DispatchBody(RaceBookings, SendFaults)
    /\ UNCHANGED <<pc, racing>>

contractor_reply_faulty ==
    /\ ReplyBody(RacePayloads, SendFaults, CrmFaults)
    /\ UNCHANGED <<pc, racing>>

NextFaulty ==
    \/ dispatch_faulty
    \/ contractor_reply_faulty
    \/ respond

SpecFaulty == Init /\ [][NextFaulty]_vars

(***************************************************************************)
(* The handlers step by step on the event loop.  A coroutine keeps the     *)
(* loop from its resumption to its return: after `await request.json()`    *)
(* the handlers contain no await, and their HTTP calls (requests.get,      *)
(* requests.post, requests.put) block the loop's thread.  While a handler  *)
(* is inside its body (`request` holds its payload) no other coroutine is  *)
(* resumed.                                                                *)
(***************************************************************************)
StepBookings == { Booking("A1", "C", Detailed), Booking("A2", None, Sparse) }

StepPayloads ==
    { [contact_id |-> c, custom_body |-> NoneText, custom_job_id |-> NoneText,
       message_kind |-> "object", message |-> m] :
          c \in {"X", "Y"},
          m \in { <<"Y","E","S"," ","A","1">>, <<"y","e","s"," "," ","A","2">> } }

\* dispatch from its resumption to the store write (lines 1753-1774)
dispatch_store(r, p) ==
    /\ pc[r] = "dispatch"
    /\ Ready
    /\ \E t \in clock..MaxTime :
          /\ JOB_STORE' = StoreJob(JOB_STORE, JobSummary(p, t))
          /\ jobKeys' = StoreKey(jobKeys, JobSummary(p, t))
          /\ clock' = t
    /\ request' = [kind |-> "dispatch", payload |-> p, contractors |-> <<>>]
    /\ pc' = [pc EXCEPT ![r] = "dispatch_stored"]
    /\ UNCHANGED <<racing, response, outbox, crm>>

\* dispatch from fetch_contractors to its return (lines 1776-1820); the
\* broadcast loop appends to the summary the store holds
dispatch_broadcast(r) ==
    /\ pc[r] = "dispatch_stored"
    /\ \E d \in Directories :
        LET e == DispatchEffect(request.payload, clock, d, NoFault) IN
        /\ JOB_STORE' = e.store
        /\ jobKeys' = e.keys
        /\ request' = [request EXCEPT !.contractors = d]
        /\ response' = e.response
        /\ outbox' = e.outbox
    /\ pc' = [pc EXCEPT ![r] = "idle"]
    /\ UNCHANGED <<clock, racing, crm>>

\* contractor_reply from its resumption to the resolved job, or to the return
\* of a reply that resolves none (lines 2212-2310)
contractor_reply_resolve(r, p) ==
    /\ pc[r] = "contractor_reply"
    /\ Ready
    /\ request' = [kind |-> "contractor_reply", payload |-> p, contractors |-> <<>>]
    /\ LET res == Resolve(p, JOB_STORE, jobKeys) IN
       IF res.reason = "resolved"
       THEN /\ pc' = [pc EXCEPT ![r] = "contractor_reply_resolved"]
            /\ UNCHANGED <<response, outbox, crm>>
       ELSE /\ pc' = [pc EXCEPT ![r] = "idle"]
            /\ response' = RejectEffect(p, res).response
            /\ outbox' = <<>>
            /\ crm' = NoCrm
    /\ UNCHANGED <<JOB_STORE, jobKeys, clock, racing>>

\* contractor_reply from fetch_contractors to its return (lines 2312-2385)
contractor_reply_assign(r) ==
    /\ pc[r] = "contractor_reply_resolved"
    /\ \E d \in Directories, o \in CrmOutcomes :
        LET res == Resolve(request.payload, JOB_STORE, jobKeys)
            e == AcceptEffect(request.payload, res.job_id, d, o, NoFault) IN
        /\ JOB_STORE' = e.store
        /\ request' = [request EXCEPT !.contractors = d]
        /\ response' = e.response
        /\ outbox' = e.outbox
        /\ crm' = e.crm
    /\ pc' = [pc EXCEPT ![r] = "idle"]
    /\ UNCHANGED <<jobKeys, clock, racing>>

\* the handler in slot r is inside its body
InBody(r) == pc[r] \in {"dispatch_stored", "contractor_reply_resolved"}

\* the response of the handler that returned last is sent
respond_returned ==
    /\ \A r \in Slots : ~InBody(r)
    /\ respond

NextSteps ==
    \/ \E r \in Slots : dispatch_await(r)
    \/ \E r \in Slots, p \in StepBookings : dispatch_store(r, p)
    \/ \E r \in Slots : dispatch_broadcast(r)
    \/ \E r \in Slots : contractor_reply_await(r)
    \/ \E r \in Slots, p \in StepPayloads : contractor_reply_resolve(r, p)
    \/ \E r \in Slots : contractor_reply_assign(r)
    \/ respond_returned

SpecSteps == Init /\ [][NextSteps]_vars

(***************************************************************************)
(* The standalone dispatcher, src/main.py: an app of its own with a        *)
(* /dispatch webhook that summarises the booking and broadcasts it.  It    *)
(* keeps no job store and has no reply webhook.                            *)
(***************************************************************************)
\* booking payloads: calendar.appointmentId and calendar.id, full_name, the
\* "Service Type" answer, the price extract_estimated_price returns (in cents),
\* calendar.startTime and calendar.endTime, and the home access answers the
\* payload carries
LegacyBookings ==
    { [appointmentId |-> a.appointmentId, calendar_id |-> a.calendar_id,
       full_name |-> n, service |-> sv, price |-> pr,
       startTime |-> w.startTime, endTime |-> w.endTime,
       access_method |-> "Lockbox", access_notes |-> "Code 4321"] :
          a \in { [appointmentId |-> "A1", calendar_id |-> "K1"],
                  [appointmentId |-> None, calendar_id |-> "K2"],
                  [appointmentId |-> None, calendar_id |-> None] },
          n \in {"Ann Lee", ""},
          sv \in {None, "Move-out Cleaning"},
          pr \in {0, 12050, 8000},
          w \in { [startTime |-> "2025-01-06T09:00:00",
                   endTime |-> "2025-01-06T11:00:00"],
                  [startTime |-> "2025-01-06T09:00:00", endTime |-> None],
                  [startTime |-> None, endTime |-> None] } }

\* what fetch_contractors_from_ghl can return: contacts with a phone; the id is
\* whatever the CRM returned
LegacyDirectories == { <<>>, <<cX, cY>>, <<cY, cNoId, cX>> }

\* job_summary
LegacyJobSummary(p) ==
    [job_id |-> Or(p.appointmentId, p.calendar_id),
     customer_name |-> Or(p.full_name, "Unknown"),
     service_type |-> Or(p.service, "Standard Home Cleaning"),
     estimated_price |-> p.price,
     start_time |-> p.startTime,
     end_time |-> p.endTime]

\* sms_message; when_str joins the two times with an arrow
sms_message(job) ==
    << "New cleaning job available:\nCustomer: ", job.customer_name,
       "\nService: ", job.service_type,
       "\nWhen: " >>
    \o (IF Truthy(job.start_time) /\ Truthy(job.end_time)
        THEN << job.start_time, " -> ", job.end_time >> ELSE << "TBD" >>)
    \o << "\nEst. price: ",
          IF job.estimated_price # 0
          THEN "$" \o Format2f(job.estimated_price) ELSE "$0.00",
          "\n\nReply YES to accept." >>

\* POST /dispatch of src/main.py: one send_sms_to_contractor call per contractor
legacy_dispatch ==
    /\ Ready
    /\ \E p \in LegacyBookings, d \in LegacyDirectories :
        LET job == LegacyJobSummary(p) IN
        /\ request' = [kind |-> "legacy_dispatch", payload |-> p, contractors |-> d]
        /\ response' = [NoResponse EXCEPT !.op = "legacy_dispatch", !.ok = TRUE,
                                          !.job_id = job.job_id, !.job = job,
                                          !.notified = Ids(d)]
        /\ outbox' = [i \in 1..Len(d) |->
                         Sms(d[i].id, "broadcast", job.job_id, sms_message(job), "200")]
    /\ crm' = NoCrm
    /\ UNCHANGED <<JOB_STORE, jobKeys, clock, pc, racing>>

NextLegacy ==
    \/ legacy_dispatch
    \/ respond

SpecLegacy == Init /\ [][NextLegacy]_vars

(***************************************************************************)
(* The quote lookup, GET /quote/cleaning: the phone's contact is searched  *)
(* in the CRM, one of the contact's opportunities is selected, and the     *)
(* quote fields are resolved from it.  Phones, timestamps, prices given as *)
(* text and the price breakdown are sequences of one-character strings.    *)
(***************************************************************************)
IsDigit(c) == c \in {"0", "1", "2", "3", "4", "5", "6", "7", "8", "9"}

\* re.sub(r"\D", "", s)
Digits(s) == SelectSeq(s, IsDigit)

\* the candidates without the assumed-US expansion
PhoneCandidates_NoCountryCode(phone) ==
    LET phone_trimmed == Strip(phone)
        digits == Digits(phone_trimmed)
    IN  IF digits = <<>> THEN <<>>
        ELSE << IF Head(phone_trimmed) # "+" THEN <<"+">> \o digits
                ELSE phone_trimmed,
                digits >>

\* the candidates _search_contact_by_phone_via_api builds for a phone, in the
\* order it appends them; none when the phone has no digit
PhoneCandidates(phone) ==
    LET phone_trimmed == Strip(phone)
        digits == Digits(phone_trimmed)
    IN  IF digits = <<>> THEN <<>>
        ELSE << IF Head(phone_trimmed) # "+" THEN <<"+">> \o digits
                ELSE phone_trimmed >>
             \o << digits >>
             \o (IF Len(digits) = 10 THEN << <<"+", "1">> \o digits >> ELSE <<>>)

\* a JSON value of the CRM: null, a number (an amount, in cents) or a string
Null == [t |-> "null", n |-> 0, s |-> <<>>]
Num(n) == [t |-> "num", n |-> n, s |-> <<>>]
Text(s) == [t |-> "str", n |-> 0, s |-> s]

\* truthiness of a JSON value
PyTruthy(v) == (v.t = "num" /\ v.n # 0) \/ (v.t = "str" /\ v.s # <<>>)

\* isinstance(v, str) and v.strip() != ""
NonBlank(v) == v.t = "str" /\ Strip(v.s) # <<>>

\* int() of a run of digits; 0 for the empty run
RECURSIVE IntOf(_)
IntOf(ds) ==
    IF ds = <<>> THEN 0
    ELSE 10 * IntOf(SubSeq(ds, 1, Len(ds) - 1))
         + (CHOOSE n \in 0..9 : Digit(n) = ds[Len(ds)])

AllDigits(s) == \A i \in 1..Len(s) : IsDigit(s[i])

\* the amount, in cents, that a whole part and a fraction of at most two
\* digits spell
Cents(whole, frac) == 100 * IntOf(whole) + IntOf(SubSeq(frac \o <<"0", "0">>, 1, 2))

\* the index of the first character of s that is in cs, Len(s) + 1 if none
IndexOf(s, cs) ==
    IF \E i \in 1..Len(s) : s[i] \in cs
    THEN CHOOSE i \in 1..Len(s) : s[i] \in cs /\ \A j \in 1..(i - 1) : s[j] \notin cs
    ELSE Len(s) + 1

\* float(s.replace("$", "").replace(",", "").strip()), None when float raises:
\* an optional sign, digits and an optional fraction of at most two digits are
\* read; the other spellings float accepts do not occur in the model's texts
ParseFloat(s) ==
    LET Number(neg, whole, frac) ==
            IF Len(whole) + Len(frac) > 0 /\ AllDigits(whole) /\ AllDigits(frac)
               /\ Len(frac) <= 2
            THEN Num(IF neg THEN 0 - Cents(whole, frac) ELSE Cents(whole, frac))
            ELSE Null
        Unsigned(neg, u, dot) ==
            Number(neg, SubSeq(u, 1, dot - 1), SubSeq(u, dot + 1, Len(u)))
        Signed(neg, u) == Unsigned(neg, u, IndexOf(u, {"."}))
        Float(t) ==
            IF t # <<>> /\ Head(t) = "-" THEN Signed(TRUE, Tail(t))
            ELSE Signed(FALSE, t)
    IN  Float(Strip(SelectSeq(s, LAMBDA c : c \notin {"$", ","})))

\* a price field of an opportunity as a float, None when it is neither a number
\* nor a string float can read
ToFloat(raw) ==
    IF raw.t = "num" THEN raw
    ELSE IF raw.t = "str" THEN ParseFloat(raw.s)
    ELSE Null

\* the longest prefix of s that [0-9][0-9,]*(?:\.[0-9]{1,max})? matches, as
\* [ok, whole, frac, rest]; ok is FALSE when s does not start with a digit
MoneyPrefix(s, max) ==
    LET Match(whole, after, fracLen) ==
            [ok |-> s # <<>> /\ IsDigit(Head(s)),
             whole |-> SelectSeq(whole, IsDigit),
             frac |-> SubSeq(after, 2, 1 + fracLen),
             rest |-> IF fracLen = 0 THEN after
                      ELSE SubSeq(after, 2 + fracLen, Len(after))]
        Fraction(whole, after) ==
            Match(whole, after,
                  IF Len(after) >= 2 /\ after[1] = "." /\ IsDigit(after[2])
                  THEN IF max >= 2 /\ Len(after) >= 3 /\ IsDigit(after[3])
                       THEN 2 ELSE 1
                  ELSE 0)
        Whole(end) == Fraction(SubSeq(s, 1, end - 1), SubSeq(s, end, Len(s)))
    IN  Whole(IndexOf(s, {c \in {s[i] : i \in 1..Len(s)} : ~IsDigit(c) /\ c # ","}))

\* str.lower
Lower(s) ==
    [i \in 1..Len(s) |->
        IF \E k \in 1..Len(UpperCase) : UpperCase[k] = s[i]
        THEN LowerCase[CHOOSE k \in 1..Len(UpperCase) : UpperCase[k] = s[i]]
        ELSE s[i]]

\* s.lower().startswith(prefix), for a lower-case prefix
StartsWithLower(s, prefix) ==
    Len(s) >= Len(prefix) /\ Lower(SubSeq(s, 1, Len(prefix))) = prefix

\* `needle in hay`
IsSubstring(needle, hay) ==
    \E i \in 1..(Len(hay) - Len(needle) + 1) :
        SubSeq(hay, i, i + Len(needle) - 1) = needle

\* text.split("\n")
RECURSIVE SplitLines(_)
SplitLines(s) ==
    LET Cut(nl) ==
            IF nl > Len(s) THEN <<s>>
            ELSE <<SubSeq(s, 1, nl - 1)>> \o SplitLines(SubSeq(s, nl + 1, Len(s)))
    IN  Cut(IndexOf(s, {"\n"}))

\* non_empty_lines of parse_simplified_price_breakdown
NonEmptyLines(text) ==
    LET Stripped(lines) ==
            SelectSeq([i \in 1..Len(lines) |-> Strip(lines[i])], LAMBDA l : l # <<>>)
    IN  Stripped(SplitLines(text))

\* ^First cleaning:\s*\$([0-9][0-9,]*(?:\.[0-9]{2})?)\s*$ on one stripped line:
\* the price as a float, None when the line does not match
FirstCleaningLine(line) ==
    LET Price(m) ==
            IF m.ok /\ Len(m.frac) # 1 /\ m.rest = <<>>
            THEN Num(Cents(m.whole, m.frac)) ELSE Null
        Dollar(rest) ==
            IF rest # <<>> /\ Head(rest) = "$"
            THEN Price(MoneyPrefix(Tail(rest), 2)) ELSE Null
    IN  IF StartsWithLower(line, <<"f","i","r","s","t"," ","c","l","e","a","n","i","n","g",":">>)
        THEN Dollar(LStrip(SubSeq(line, Len(<<"f","i","r","s","t"," ","c","l","e","a","n","i","n","g",":">>) + 1, Len(line))))
        ELSE Null

\* ^Recurring\s*\((?P<freq>[^)]+)\)\s*:\s*\$?\s*(?P<price>...) on one stripped
\* line, as [ok, freq, price]
RecurringLine(line) ==
    LET NoMatch == [ok |-> FALSE, freq |-> <<>>, price |-> Null]
        Price(freq, m) ==
            IF m.ok
            THEN [ok |-> TRUE, freq |-> Strip(freq),
                  price |-> Num(Cents(m.whole, m.frac))]
            ELSE NoMatch
        Dollar(freq, c) ==
            Price(freq, MoneyPrefix(LStrip(IF c # <<>> /\ Head(c) = "$"
                                           THEN Tail(c) ELSE c), 2))
        Colon(freq, b) ==
            IF b # <<>> /\ Head(b) = ":" THEN Dollar(freq, LStrip(Tail(b)))
            ELSE NoMatch
        Label(a, close) ==
            IF close <= Len(a) /\ close > 2
            THEN Colon(SubSeq(a, 2, close - 1), LStrip(SubSeq(a, close + 1, Len(a))))
            ELSE NoMatch
        Paren(a) ==
            IF a # <<>> /\ Head(a) = "(" THEN Label(a, IndexOf(a, {")"}))
            ELSE NoMatch
    IN  IF StartsWithLower(line, <<"r","e","c","u","r","r","i","n","g">>)
        THEN Paren(LStrip(SubSeq(line, Len(<<"r","e","c","u","r","r","i","n","g">>) + 1, Len(line))))
        ELSE NoMatch

\* the first element of a list of JSON values that is not None, None if none
RECURSIVE FirstNotNull(_)
FirstNotNull(vs) ==
    IF vs = <<>> THEN Null
    ELSE IF Head(vs) # Null THEN Head(vs) ELSE FirstNotNull(Tail(vs))

\* parse_simplified_price_breakdown: first_clean_price, recurring_price and
\* frequency_label of a breakdown text.  The first "First cleaning" line that
\* matches gives the first price; the first "Recurring" line that matches gives
\* the recurring price and, when its label is not blank, the frequency.
parse_simplified_price_breakdown(text) ==
    LET Result(first, recs) ==
            [first_clean_price |-> first,
             recurring_price |-> IF recs = <<>> THEN Null ELSE recs[1].price,
             frequency_label |-> IF recs # <<>> /\ recs[1].freq # <<>>
                                 THEN Text(recs[1].freq) ELSE Null]
        Parsed(lines) ==
            Result(FirstNotNull([i \in 1..Len(lines) |-> FirstCleaningLine(lines[i])]),
                   SelectSeq([i \in 1..Len(lines) |-> RecurringLine(lines[i])],
                             LAMBDA r : r.ok))
    IN  Parsed(NonEmptyLines(text))

\* the recurring price one custom field gives, None when it gives none: a
\* number, or the first amount in the text,
\* re.search(r"\$?\s*([0-9][0-9,]*(?:\.[0-9]{1,2})?)", value.strip())
RecurringOfField(cf) ==
    LET Amount(m) == Num(Cents(m.whole, m.frac))
        From(s, q) ==
            IF q <= Len(s) THEN Amount(MoneyPrefix(SubSeq(s, q, Len(s)), 2)) ELSE Null
        First(s) == From(s, IndexOf(s, {c \in {s[i] : i \in 1..Len(s)} : IsDigit(c)}))
    IN  IF ~IsSubstring(<<"r","e","c","u","r","r","i","n","g","_","p","r","i","c","e">>, Lower(cf.id)) THEN Null
        ELSE IF cf.value.t = "num" THEN cf.value
        ELSE IF cf.value.t = "str" THEN First(Strip(cf.value.s))
        ELSE Null

\* the frequency label one custom field gives, None when it gives none
FrequencyOfField(cf) ==
    IF /\ \/ IsSubstring(<<"c","l","e","a","n","i","n","g","_","f","r","e","q","u","e","n","c","y">>, Lower(cf.id))
          \/ Lower(cf.id) = <<"f","r","e","q","u","e","n","c","y">>
       /\ NonBlank(cf.value)
    THEN Text(Strip(cf.value.s))
    ELSE Null

\* extract_contact_pricing_from_custom_fields, for customFields in the array
\* form: the first field of each kind that gives a value
extract_contact_pricing_from_custom_fields(contact) ==
    LET Pricing(cfs) ==
            [recurring_price |->
                 FirstNotNull([i \in 1..Len(cfs) |-> RecurringOfField(cfs[i])]),
             frequency_label |->
                 FirstNotNull([i \in 1..Len(cfs) |-> FrequencyOfField(cfs[i])])]
    IN  Pricing(contact.customFields)

\* list.sort(key=..., reverse=True) on [key, item] pairs with string keys: a
\* stable sort, so equal keys keep their order
RECURSIVE InsertDescending(_, _)
InsertDescending(x, sorted) ==
    IF sorted = <<>> THEN <<x>>
    ELSE IF StrLess(Head(sorted).key, x.key) THEN <<x>> \o sorted
    ELSE <<Head(sorted)>> \o InsertDescending(x, Tail(sorted))

RECURSIVE SortDescending(_)
SortDescending(pairs) ==
    IF pairs = <<>> THEN <<>>
    ELSE InsertDescending(pairs[Len(pairs)],
                          SortDescending(SubSeq(pairs, 1, Len(pairs) - 1)))

\* _opp_sort_key: updatedAt or createdAt or ""
OppSortKey(o) == IF o.updatedAt # <<>> THEN o.updatedAt ELSE o.createdAt

\* has_any_pricing of the selection loop; the first disjunct is
\* `o.get("estimated_price") or o.get("monetaryValue")`
HasAnyPricing(o) ==
    \/ (IF PyTruthy(o.estimated_price) THEN o.estimated_price
        ELSE o.monetaryValue) # Null
    \/ o.recurring_price # Null
    \/ NonBlank(o.price_breakdown)

\* the opportunity the quote is read from: the opportunities are sorted, most
\* recent first, and the first that has any pricing is taken; <<>> when there
\* is none, else the one-element list of it
SelectedOpportunity(opps) ==
    LET First(priced) == IF priced = <<>> THEN <<>> ELSE <<priced[1]>>
        Priced(sorted) ==
            First(SelectSeq([i \in 1..Len(sorted) |-> sorted[i].item], HasAnyPricing))
    IN  Priced(SortDescending([i \in 1..Len(opps) |->
                                  [key |-> OppSortKey(opps[i]), item |-> opps[i]]]))

\* a quote that is ready as soon as both prices are known
QuoteReady_WithoutFrequency(first_clean_price, recurring_price, frequency_label) ==
    first_clean_price # Null /\ recurring_price # Null

\* quote_ready
QuoteReady(first_clean_price, recurring_price, frequency_label) ==
    /\ first_clean_price # Null
    /\ recurring_price # Null
    /\ PyTruthy(frequency_label)

\* the quote fields of the selected opportunity o of a contact: the opportunity's
\* own fields, its breakdown text, then the contact's custom fields
QuoteFields(contact, o) ==
    LET Final(estimated_price, first_clean_price, recurring_price, frequency_label) ==
            [estimated_price |-> FirstNotNull(<<estimated_price, first_clean_price>>),
             first_clean_price |-> first_clean_price,
             recurring_price |-> recurring_price,
             frequency_label |-> frequency_label,
             quote_ready |-> QuoteReady(first_clean_price, recurring_price,
                                        frequency_label)]
        Fallback(estimated_price, first_clean_price, recurring0, frequency0,
                 contact_pricing) ==
            Final(estimated_price, first_clean_price,
                  FirstNotNull(<<recurring0, contact_pricing.recurring_price>>),
                  IF ~PyTruthy(frequency0) /\ PyTruthy(contact_pricing.frequency_label)
                  THEN contact_pricing.frequency_label ELSE frequency0)
        Decide(estimated_price, recurring_from_field, frequency_from_field, parsed) ==
            Fallback(estimated_price,
                     FirstNotNull(<<parsed.first_clean_price, estimated_price>>),
                     FirstNotNull(<<parsed.recurring_price, recurring_from_field>>),
                     IF NonBlank(parsed.frequency_label)
                     THEN Text(Strip(parsed.frequency_label.s))
                     ELSE frequency_from_field,
                     extract_contact_pricing_from_custom_fields(contact))
    IN  Decide(ToFloat(IF o.estimated_price = Null THEN o.monetaryValue
                       ELSE o.estimated_price),
               ToFloat(o.recurring_price),
               IF NonBlank(o.cleaning_frequency)
               THEN Text(Strip(o.cleaning_frequency.s)) ELSE Null,
               IF o.price_breakdown.t = "str"
               THEN parse_simplified_price_breakdown(o.price_breakdown.s)
               ELSE [first_clean_price |-> Null, recurring_price |-> Null,
                     frequency_label |-> Null])

\* the answers the contact search gives to one probe: requests.post raises, the
\* status is not 2xx, the body is not JSON, the body is a JSON list, or the body
\* is a JSON object with these contacts
ProbeAnswer(kind, contacts) == [kind |-> kind, contacts |-> contacts]

\* a probe loop that gives up at the first candidate without contacts: a
\* failed probe raises, an empty answer ends the search
ProbeFrom_GivesUp(candidates, answers, i) ==
    IF i > Len(candidates)
    THEN [raised |-> FALSE, contacts |-> <<>>, probed |-> <<>>]
    ELSE [raised |-> answers[i].kind # "object",
          contacts |-> answers[i].contacts,
          probed |-> <<candidates[i]>>]

\* the probe loop of _search_contact_by_phone_via_api from candidate i on, as
\* [raised, contacts, probed]: probed lists the candidates that were posted, in
\* order.  data.get on a JSON list raises AttributeError outside the loop's try
\* blocks.
RECURSIVE ProbeFrom(_, _, _)
ProbeFrom(candidates, answers, i) ==
    IF i > Len(candidates)
    THEN [raised |-> FALSE, contacts |-> <<>>, probed |-> <<>>]
    ELSE IF answers[i].kind = "list"
    THEN [raised |-> TRUE, contacts |-> <<>>, probed |-> <<candidates[i]>>]
    ELSE IF answers[i].kind = "object" /\ answers[i].contacts # <<>>
    THEN [raised |-> FALSE, contacts |-> answers[i].contacts,
          probed |-> <<candidates[i]>>]
    ELSE LET rest == ProbeFrom(candidates, answers, i + 1)
         IN  [rest EXCEPT !.probed = <<candidates[i]>> \o @]

\* picking the first contact whatever the timestamps
FirstContact_Unsorted(contacts) == [raised |-> FALSE, contact |-> <<contacts[1]>>]

\* the contact find_contact_record_by_phone returns from a non-empty list, as
\* [raised, contact]: several contacts are sorted by updatedAt, most recent
\* first, and comparing a null updatedAt raises TypeError
FirstContact(contacts) ==
    IF Len(contacts) > 1 /\ \E i \in 1..Len(contacts) : contacts[i].updatedAt = NoneText
    THEN [raised |-> TRUE, contact |-> <<>>]
    ELSE IF Len(contacts) > 1
    THEN [raised |-> FALSE,
          contact |-> <<SortDescending([i \in 1..Len(contacts) |->
                            [key |-> contacts[i].updatedAt, item |-> contacts[i]]])[1].item>>]
    ELSE [raised |-> FALSE, contact |-> <<contacts[1]>>]

\* the body of a quote response and, in `log`, what the handler logged about
\* the lookup; the fields a response does not carry are None
QuoteResponse(status, fields, contact_id, opportunity_id) ==
    [op |-> "get_cleaning_quote", http |-> 200, status |-> status,
     estimated_price |-> fields.estimated_price,
     first_clean_price |-> fields.first_clean_price,
     recurring_price |-> fields.recurring_price,
     frequency_label |-> fields.frequency_label,
     log |-> [contact_id |-> contact_id, opportunity_id |-> opportunity_id]]

NoFields ==
    [estimated_price |-> Null, first_clean_price |-> Null, recurring_price |-> Null,
     frequency_label |-> Null, quote_ready |-> FALSE]

\* an exception that leaves the handler: the server answers 500
QuoteFailed_Propagates ==
    [QuoteResponse("error", NoFields, None, None) EXCEPT !.http = 500, !.status = None]

\* the response of the handler's `except Exception`
QuoteFailed == QuoteResponse("error", NoFields, None, None)

\* the search a quote lookup made: the candidates it built and the ones it
\* posted
QuoteSearch(candidates, probed) ==
    [result |-> "search", candidates |-> candidates, probed |-> probed]

\* find_contact_record_by_phone for a CRM that has the location id set or not
\* and answers the i-th probe with answers[i], as [raised, contact, search]:
\* contact is <<>> for None, else the one-element list of the contact
find_contact_record_by_phone(phone, location, answers) ==
    LET Pick(search, first) ==
            [raised |-> first.raised, contact |-> first.contact, search |-> search]
        Found(search, found) ==
            IF found.raised \/ found.contacts = <<>>
            THEN [raised |-> found.raised, contact |-> <<>>, search |-> search]
            ELSE Pick(search, FirstContact(found.contacts))
        Probed(candidates, found) ==
            Found(QuoteSearch(candidates, found.probed), found)
        Search(candidates) == Probed(candidates, ProbeFrom(candidates, answers, 1))
    IN  IF ~location
        THEN [raised |-> FALSE, contact |-> <<>>, search |-> QuoteSearch(<<>>, <<>>)]
        ELSE Search(PhoneCandidates(phone))

\* the response of get_cleaning_quote for the contact it found: not_found
\* without opportunities or without one that has any pricing, else the quote
\* read from the selected opportunity
QuoteOfContact(contact) ==
    LET Quote(o, fields) ==
            QuoteResponse(IF fields.quote_ready THEN "ready" ELSE "pending",
                          fields, contact.id, o.id)
        Selected(selected) ==
            IF selected = <<>>
            THEN QuoteResponse("not_found", NoFields, contact.id, None)
            ELSE Quote(selected[1], QuoteFields(contact, selected[1]))
    IN  IF contact.opportunities = <<>>
        THEN QuoteResponse("not_found", NoFields, contact.id, None)
        ELSE Selected(SelectedOpportunity(contact.opportunities))

\* get_cleaning_quote from the phone to the response and the search it made
QuoteEffect(phone, location, answers) ==
    LET Answer(found) ==
            [response |-> IF found.raised THEN QuoteFailed
                          ELSE IF found.contact = <<>>
                          THEN QuoteResponse("not_found", NoFields, None, None)
                          ELSE QuoteOfContact(found.contact[1]),
             search |-> found.search]
    IN  IF Strip(phone) = <<>>
        THEN [response |-> QuoteResponse("not_found", NoFields, None, None),
              search |-> QuoteSearch(<<>>, <<>>)]
        ELSE Answer(find_contact_record_by_phone(Strip(phone), location, answers))

(***************************************************************************)
(* The CRM's data for the lookups of the model.                            *)
(***************************************************************************)
\* the phone query parameter
Phones ==
    { <<>>, <<" "," ">>, <<"n","/","a">>, <<"+">>,
      <<"(","6","0","2",")"," ","2","9","0","-","4","8","1","6">>, <<" ","6","0","2","-","2","9","0","-","4","8","1","6"," ">>, <<"6","0","2","2","9","0","4","8","1","6">>,
      <<"+","6","0","2","2","9","0","4","8","1","6">>, <<"+","1","6","0","2","2","9","0","4","8","1","6">>, <<"1","6","0","2","2","9","0","4","8","1","6">>,
      <<"+","1"," ","(","6","0","2",")"," ","2","9","0","-","4","8","1","6">>, <<"2","9","0","4","8","1","6">> }

\* an entry of contact.opportunities
Opportunity(id, status, updatedAt, createdAt, estimated_price, monetaryValue, recurring_price, price_breakdown, cleaning_frequency) ==
    [id |-> id, status |-> status, updatedAt |-> updatedAt, createdAt |-> createdAt,
     estimated_price |-> estimated_price, monetaryValue |-> monetaryValue,
     recurring_price |-> recurring_price, price_breakdown |-> price_breakdown,
     cleaning_frequency |-> cleaning_frequency]

\* an opportunity with a first price, a recurring price and a frequency
PricedOpportunity(id, status, updatedAt, createdAt) ==
    Opportunity(id, status, updatedAt, createdAt, Num(20000), Null, Num(12000),
                Null, Text(<<"W","e","e","k","l","y">>))

Contact(id, updatedAt, opportunities, customFields) ==
    [id |-> id, updatedAt |-> updatedAt, opportunities |-> opportunities,
     customFields |-> customFields]

\* contacts the search can return; updatedAt is a timestamp, absent (""), or
\* null; the bare contact has no opportunities
Contacts ==
    [old |-> Contact("K1", <<"1">>, <<PricedOpportunity("O1", "open", <<"1">>, <<>>)>>, <<>>),
     new |-> Contact("K2", <<"2">>, <<PricedOpportunity("O2", "open", <<"1">>, <<>>)>>, <<>>),
     tie |-> Contact("K3", <<"2">>, <<PricedOpportunity("O3", "open", <<"1">>, <<>>)>>, <<>>),
     bare |-> Contact("K4", <<>>, <<>>, <<>>),
     null |-> Contact("K5", NoneText,
                      <<PricedOpportunity("O5", "open", <<"1">>, <<>>)>>, <<>>)]

\* the answers to one probe
ProbeAnswers ==
    { ProbeAnswer("exception", <<>>), ProbeAnswer("status", <<>>),
      ProbeAnswer("not_json", <<>>), ProbeAnswer("list", <<>>),
      ProbeAnswer("object", <<>>),
      ProbeAnswer("object", <<Contacts.old, Contacts.new>>),
      ProbeAnswer("object", <<Contacts.tie, Contacts.old, Contacts.new>>),
      ProbeAnswer("object", <<Contacts.bare>>),
      ProbeAnswer("object", <<Contacts.null, Contacts.new>>) }

\* a lookup: the phone, whether GHL_LOCATION_ID is set, and the CRM's answers
\* to the first, second and third probe.  This is the lookup of a phone whose
\* first probe returns just this contact.
LookupOf(contact) ==
    [phone |-> <<"6","0","2","2","9","0","4","8","1","6">>, location |-> TRUE,
     answers |-> << ProbeAnswer("object", <<contact>>), ProbeAnswer("exception", <<>>),
                    ProbeAnswer("exception", <<>>) >>]

\* lookups that differ in the phone and in what the search answers
SearchLookups ==
    { [phone |-> ph, location |-> TRUE, answers |-> <<a1, a2, a3>>] :
          ph \in Phones, a1 \in ProbeAnswers, a2 \in ProbeAnswers, a3 \in ProbeAnswers }
    \cup { [phone |-> ph, location |-> FALSE, answers |-> <<a, a, a>>] :
               ph \in Phones, a \in ProbeAnswers }

\* price_breakdown texts: the documented format; a first price only; a
\* recurring line only (the first price lacks its "$"); a recurring line with a
\* blank label; and a text with no price
Breakdowns ==
    [full |-> Text(<<"P","r","i","c","e"," ","B","r","e","a","k","d","o","w","n",":","\n","S","e","r","v","i","c","e",":"," ","S","t","a","n","d","a","r","d"," ","C","l","e","a","n","i","n","g","\n","\n","F","i","r","s","t"," ","c","l","e","a","n","i","n","g",":"," ","$","2","4","0",".","0","0","\n"," "," ","R","e","c","u","r","r","i","n","g"," ","(","W","e","e","k","l","y",")",":"," ","$","1","4","4",".","0","0"," ","/"," ","v","i","s","i","t"," ","(","4","0","%"," ","o","f","f",")">>),
     first |-> Text(<<"F","i","r","s","t"," ","C","l","e","a","n","i","n","g",":"," ","$","1",",","2","4","0","\n","R","e","c","u","r","r","i","n","g",":"," ","a","s","k"," ","u","s">>),
     recurring |-> Text(<<"f","i","r","s","t"," ","c","l","e","a","n","i","n","g",":"," ","2","4","0",".","0","0","\n","r","e","c","u","r","r","i","n","g"," ","(","B","i","w","e","e","k","l","y",")"," ",":"," ","1","5","0",".","5"," ","/"," ","v","i","s","i","t">>),
     blank |-> Text(<<"R","e","c","u","r","r","i","n","g"," ","("," ",")",":"," ","$","9","9">>),
     other |-> Text(<<"C","a","l","l"," ","f","o","r"," ","p","r","i","c","i","n","g">>)]

\* entries of contact.customFields
CustomFields ==
    [recurring |-> [id |-> <<"c","o","n","t","a","c","t",".","r","e","c","u","r","r","i","n","g","_","p","r","i","c","e">>,
                    value |-> Text(<<" ","$","1","4","4",".","0","0"," ","/"," ","v","i","s","i","t">>)],
     number |-> [id |-> <<"R","e","c","u","r","r","i","n","g","_","P","r","i","c","e">>, value |-> Num(13000)],
     unpriced |-> [id |-> <<"r","e","c","u","r","r","i","n","g","_","p","r","i","c","e","_","n","o","t","e">>, value |-> Text(<<"a","s","k">>)],
     frequency |-> [id |-> <<"F","r","e","q","u","e","n","c","y">>, value |-> Text(<<" ","W","e","e","k","l","y"," ">>)],
     cleaning |-> [id |-> <<"c","o","n","t","a","c","t",".","c","l","e","a","n","i","n","g","_","f","r","e","q","u","e","n","c","y">>, value |-> Text(<<"M","o","n","t","h","l","y">>)],
     blank |-> [id |-> <<"f","r","e","q","u","e","n","c","y">>, value |-> Text(<<" ">>)],
     other |-> [id |-> <<"v","i","s","i","t","_","f","r","e","q","u","e","n","c","y">>, value |-> Text(<<"W","e","e","k","l","y"," ","1","4","4">>)]]

\* contact.customFields
CustomFieldLists ==
    { <<>>, <<CustomFields.other>>, <<CustomFields.recurring>>,
      <<CustomFields.frequency>>,
      <<CustomFields.other, CustomFields.number, CustomFields.cleaning>>,
      <<CustomFields.unpriced, CustomFields.blank, CustomFields.recurring,
        CustomFields.cleaning>> }

\* lookups whose contact has one opportunity, which differ in the quote fields
\* of the opportunity and in the contact's custom fields
FieldLookups ==
    { LookupOf(Contact("K1", <<"1">>,
                       <<Opportunity("O1", "open", <<"1">>, <<>>, est, mon, rec, pb, fr)>>,
                       cfs)) :
          est \in {Null, Num(0), Num(20000), Text(<<"$","1",",","2","0","0",".","5","0">>), Text(<<"t","b","d">>)},
          mon \in {Null, Num(18000)},
          rec \in {Null, Num(12000), Text(<<"n","/","a">>)},
          pb \in {Null, Text(<<" ">>), Breakdowns.full, Breakdowns.first,
                  Breakdowns.recurring, Breakdowns.blank, Breakdowns.other},
          fr \in {Null, Text(<<" ">>), Text(<<" ","M","o","n","t","h","l","y"," ">>)},
          cfs \in CustomFieldLists }

\* opportunities that differ in status, age and whether they carry a price;
\* the identifier spells the three out
SomeOpportunity(n) ==
    { IF priced THEN PricedOpportunity(n \o "-" \o st \o Str(ts) \o "-priced", st, ts, <<>>)
      ELSE Opportunity(n \o "-" \o st \o Str(ts) \o "-unpriced", st, ts, <<>>,
                       Null, Null, Null, Null, Null) :
          st \in {"open", "won", "lost", "abandoned"}, ts \in {<<"1">>, <<"2">>}, priced \in BOOLEAN }

\* lookups whose contact has two opportunities, or three
SelectionLookups ==
    { LookupOf(Contact("K1", <<"1">>, <<o1, o2>>, <<>>)) :
          o1 \in SomeOpportunity("O1"), o2 \in SomeOpportunity("O2") }
    \cup { LookupOf(Contact("K1", <<"1">>,
                            <<o1, PricedOpportunity("O3", "won", <<"3">>, <<>>),
                              Opportunity("O4", "open", <<>>, <<"4">>, Null, Null,
                                          Null, Breakdowns.other, Null)>>, <<>>)) :
               o1 \in SomeOpportunity("O1") }

Lookups == SearchLookups \cup FieldLookups \cup SelectionLookups

\* GET /quote/cleaning against the CRM: the request records the lookup, crm
\* the search it made.  The handler neither reads nor writes the job store.
get_cleaning_quote_crm ==
    /\ Ready
    /\ \E q \in Lookups :
        LET e == QuoteEffect(q.phone, q.location, q.answers) IN
        /\ request' = [kind |-> "get_cleaning_quote", lookup |-> q]
        /\ response' = e.response
        /\ crm' = e.search
    /\ outbox' = <<>>
    /\ UNCHANGED <<JOB_STORE, jobKeys, clock, pc, racing>>

NextQuote ==
    \/ get_cleaning_quote_crm
    \/ respond

SpecQuote == Init /\ [][NextQuote]_vars

(***************************************************************************)
(* The price of a booking.  build_job_summary reads it from the payload's  *)
(* "Estimated Price (Contact)" and "Estimated Price" fields (JSON values)  *)
(* and from the "Price Breakdown (Contact)" text; amounts are in cents.    *)
(***************************************************************************)
\* estimated_price of build_job_summary.  The direct field is kept when float
\* reads it; when the result is <= 0 and there is a breakdown, the first line
\* containing "Total" whose text after its first colon float reads (the "$"
\* removed, a "," not) replaces it.
EstimatedPrice(est_contact, est_plain, price_breakdown) ==
    LET Direct(est_raw) ==
            IF PyTruthy(est_raw) /\ ToFloat(est_raw) # Null
            THEN ToFloat(est_raw).n ELSE 0
        Part(line, colon) ==
            IF colon > Len(line) THEN line
            ELSE SubSeq(line, colon + 1, Len(line))
        TotalOf(line) ==
            IF ~IsSubstring(<<"T","o","t","a","l">>, line) THEN Null
            ELSE IF IsSubstring(<<",">>, Part(line, IndexOf(line, {":"}))) THEN Null
            ELSE ParseFloat(Part(line, IndexOf(line, {":"})))
        Total(lines) == FirstNotNull([i \in 1..Len(lines) |-> TotalOf(lines[i])])
        Fallback(direct, total) ==
            IF direct <= 0 /\ PyTruthy(price_breakdown) /\ total # Null
            THEN total.n ELSE direct
    IN  Fallback(Direct(IF PyTruthy(est_contact) THEN est_contact ELSE est_plain),
                 IF PyTruthy(price_breakdown)
                 THEN Total(SplitLines(price_breakdown.s)) ELSE Null)

\* booking payloads with their price fields: the direct fields as the CRM
\* sends them (absent, numbers, texts with and without an amount) and
\* breakdown texts (absent, without a total, with one, with several)
PricedBookings ==
    { [appointmentId |-> a, contact_id |-> "C",
       full_name |-> "Ann Lee", startTime |-> "2025-01-06T09:00:00",
       est_contact |-> e, est_plain |-> n, price_breakdown |-> b,
       price |-> EstimatedPrice(e, n, b),
       deep |-> PyTruthy(b) /\ IsSubstring(<<"D","e","e","p">>, b.s),
       access_method |-> "Lockbox", access_notes |-> ""] :
          a \in {"A1", None},
          e \in { Null, Num(9900), Num(0 - 500), Text(<<"$","1",",","2","4","0",".","0","0">>),
                  Text(<<" ","7","5"," ">>), Text(<<"-","2","0">>), Text(<<"0">>), Text(<<"T","B","D">>) },
          n \in { Null, Text(<<"5","0">>) },
          b \in { Null, Text(<<"D","e","e","p"," ","c","l","e","a","n","\n","T","o","t","a","l",":"," ","$","7","5">>),
                  Text(<<"S","u","b","t","o","t","a","l",":"," ","$","6","0","\n","T","o","t","a","l",":"," ","$","1",",","2","4","0",".","0","0">>),
                  Text(<<"T","o","t","a","l"," ","(","2",":","0","0"," ","s","l","o","t",")",":"," ","$","8","0">>),
                  Text(<<"T","o","t","a","l",":"," ","T","B","D","\n","G","r","a","n","d"," ","T","o","t","a","l"," ",":"," ","$"," ","9","0",".","5","0","\n","T","o","t","a","l",":"," ","$","9","5">>),
                  Text(<<"T","o","t","a","l",":"," ","-","5">>),
                  Text(<<"T","o","t","a","l"," ","$","7","5">>) } }

\* POST /dispatch on a booking with its price fields
dispatch_priced ==
    /\ DispatchBody(PricedBookings, {NoFault})
    /\ UNCHANGED <<pc, racing>>

NextPrice ==
    \/ dispatch_priced
    \/ respond

SpecPrice == Init /\ [][NextPrice]_vars

(***************************************************************************)
(* The handlers call by call.  After its await a handler body is           *)
(* synchronous code that calls the collaborators one after the other; each *)
(* send_conversation_sms call returns after a 201, another status or an    *)
(* exception (a timeout is one).  `request` holds the locals of the        *)
(* running body: the contractor list, the number of its entries the loop   *)
(* has visited, the job summary and whether the body has returned.         *)
(***************************************************************************)
\* mutant of LoopAdvance: a send that did not end with 201 leaves the loop
LoopAdvance_BreaksOnFailure(visited, total, status) ==
    IF status # "201" THEN total ELSE visited + 1

\* `for c in contractors`: the entries visited after one more iteration, whose
\* send_conversation_sms call (if it made one) ended with status
LoopAdvance(visited, total, status) == visited + 1

\* dispatch from its resumption to the broadcast loop (lines 1753-1797): the
\* summary is built and stored, the contractors are fetched, and with no
\* contractor the handler returns
dispatch_begin ==
    /\ Ready
    /\ \E p \in RaceBookings, t \in clock..MaxTime, d \in Directories :
          /\ JOB_STORE' = StoreJob(JOB_STORE, JobSummary(p, t))
          /\ jobKeys' = StoreKey(jobKeys, JobSummary(p, t))
          /\ clock' = t
          /\ request' = [kind |-> "dispatch", payload |-> p, contractors |-> d,
                         visited |-> 0, job |-> JobSummary(p, t),
                         returned |-> d = <<>>]
          /\ response' = IF d = <<>> THEN DispatchEffect(p, t, d, NoFault).response
                         ELSE NoResponse
    /\ outbox' = <<>>
    /\ crm' = NoCrm
    /\ UNCHANGED <<pc, racing>>

\* one iteration of the broadcast loop (lines 1800-1812): an entry without id
\* or phone is skipped; otherwise the message is sent and, however the call
\* ended, the id is appended to the summary, which is the object the store holds
dispatch_notify ==
    /\ request.kind = "dispatch"
    /\ ~request.returned
    /\ request.visited < Len(request.contractors)
    /\ LET c == request.contractors[request.visited + 1] IN
       IF Reachable(c)
       THEN \E status \in SendOutcomes :
               LET Notified(job) ==
                       [job EXCEPT !.notified_contractors = Append(@, c.id)]
               IN  /\ outbox' = Append(outbox,
                                       Sms(c.id, "broadcast", request.job.job_id,
                                           BroadcastText(request.job), status))
                   /\ JOB_STORE' = StoreJob(JOB_STORE, Notified(request.job))
                   /\ jobKeys' = StoreKey(jobKeys, Notified(request.job))
                   /\ request' =
                         [request EXCEPT
                             !.job = Notified(request.job),
                             !.visited = LoopAdvance(request.visited,
                                                     Len(request.contractors), status)]
       ELSE /\ request' =
                  [request EXCEPT
                      !.visited = LoopAdvance(request.visited,
                                              Len(request.contractors), "201")]
            /\ UNCHANGED <<JOB_STORE, jobKeys, outbox>>
    /\ UNCHANGED <<clock, pc, racing, response, crm>>

\* the return of dispatch after the loop (lines 1814-1820)
dispatch_return ==
    /\ request.kind = "dispatch"
    /\ ~request.returned
    /\ request.visited >= Len(request.contractors)
    /\ request' = [request EXCEPT !.returned = TRUE]
    /\ response' = [NoResponse EXCEPT !.op = "dispatch", !.ok = TRUE,
                                      !.job_id = request.job.job_id,
                                      !.job = request.job,
                                      !.notified = request.job.notified_contractors]
    /\ UNCHANGED <<JOB_STORE, jobKeys, clock, pc, racing, outbox, crm>>

\* contractor_reply from its resumption to the confirmation (lines 2212-2340):
\* a reply that resolves no job returns (or raises); otherwise the contractors
\* are fetched, the job is assigned and the confirmation is sent
contractor_reply_begin ==
    /\ Ready
    /\ \E p \in StepPayloads \cup RacePayloads :
        LET res == Resolve(p, JOB_STORE, jobKeys) IN
        IF res.reason = "resolved"
        THEN \E d \in Directories, status \in SendOutcomes :
                LET f == [NoFault EXCEPT ![IF Truthy(p.contact_id)
                                           THEN p.contact_id ELSE "C"] = status]
                    job == Assign(JOB_STORE[res.job_id], p.contact_id,
                                  ContractorName(d, p.contact_id))
                IN  /\ JOB_STORE' = [JOB_STORE EXCEPT ![res.job_id] = job]
                    /\ outbox' = ConfirmSms(job, p.contact_id, f)
                    /\ request' = [kind |-> "contractor_reply", payload |-> p,
                                   contractors |-> d, visited |-> 0, job |-> job,
                                   returned |-> FALSE]
                    /\ response' = NoResponse
        ELSE /\ JOB_STORE' = JOB_STORE
             /\ outbox' = <<>>
             /\ request' = [kind |-> "contractor_reply", payload |-> p,
                            contractors |-> <<>>, visited |-> 0,
                            job |-> [job_id |-> None], returned |-> TRUE]
             /\ response' = RejectEffect(p, res).response
    /\ crm' = NoCrm
    /\ UNCHANGED <<jobKeys, clock, pc, racing>>

\* one iteration of the loop that tells the other contractors (lines
\* 2343-2357): entries without id or phone and the replier are skipped
contractor_reply_claimed ==
    /\ request.kind = "contractor_reply"
    /\ ~request.returned
    /\ request.visited < Len(request.contractors)
    /\ LET c == request.contractors[request.visited + 1] IN
       IF Reachable(c) /\ c.id # request.payload.contact_id
       THEN \E status \in SendOutcomes :
               /\ outbox' = Append(outbox,
                                   Sms(c.id, "claimed", request.job.job_id,
                                       ClaimedText(request.job), status))
               /\ request' =
                     [request EXCEPT
                         !.visited = LoopAdvance(request.visited,
                                                 Len(request.contractors), status)]
       ELSE /\ request' =
                  [request EXCEPT
                      !.visited = LoopAdvance(request.visited,
                                              Len(request.contractors), "201")]
            /\ outbox' = outbox
    /\ UNCHANGED <<JOB_STORE, jobKeys, clock, pc, racing, response, crm>>

\* contractor_reply after the loop (lines 2359-2385): the customer is told,
\* the assignment is written back and the handler returns
contractor_reply_finish ==
    /\ request.kind = "contractor_reply"
    /\ ~request.returned
    /\ request.visited >= Len(request.contractors)
    /\ \E status \in SendOutcomes, o \in CrmFaults :
          LET e == AcceptEffect(request.payload, request.job.job_id,
                                request.contractors, o, NoFault)
          IN  /\ outbox' = outbox \o CustomerSms(request.job,
                                                 [NoFault EXCEPT !["C"] = status])
              /\ crm' = [e.crm EXCEPT !.after = Len(outbox')]
              /\ response' = e.response
    /\ request' = [request EXCEPT !.returned = TRUE]
    /\ UNCHANGED <<JOB_STORE, jobKeys, clock, pc, racing>>

\* the response of the handler that returned is sent
respond_sent ==
    /\ ~Ready
    /\ request.returned
    /\ respond

NextFanOut ==
    \/ dispatch_begin
    \/ dispatch_notify
    \/ dispatch_return
    \/ contractor_reply_begin
    \/ contractor_reply_claimed
    \/ contractor_reply_finish
    \/ respond_sent

\* a running body takes its next step: its code is synchronous and every
\* collaborator call ends (requests is called with timeout=10)
SpecFanOut ==
    /\ Init
    /\ [][NextFanOut]_vars
    /\ WF_vars(dispatch_notify \/ dispatch_return
               \/ contractor_reply_claimed \/ contractor_reply_finish)

(***************************************************************************)
(* Properties.                                                             *)
(***************************************************************************)
\* the step is the body of a contractor_reply that was accepted for job j
AcceptedFor(j) ==
    /\ response'.op = "contractor_reply"
    /\ response'.ok
    /\ response'.job_id = j

\* C1: single winner.  Once a reply has set a stored job's assigned contractor
\* to X, a later accepted reply for that job from a different contractor leaves
\* the job's assigned contractor id and name as they were.
C1_SingleWinner ==
    [][\A j \in DOMAIN JOB_STORE :
          ( /\ JOB_STORE[j].assigned_contractor_id # None
            /\ AcceptedFor(j)
            /\ Truthy(request'.payload.contact_id)
            /\ request'.payload.contact_id # JOB_STORE[j].assigned_contractor_id )
          => /\ JOB_STORE'[j].assigned_contractor_id
                    = JOB_STORE[j].assigned_contractor_id
             /\ JOB_STORE'[j].assigned_contractor_name
                    = JOB_STORE[j].assigned_contractor_name]_vars

\* C2: idempotent acceptance.  An acceptance processed for a job that is
\* already assigned sends no message and makes no CRM write-back.
C2_NoRenotify ==
    [][\A j \in DOMAIN JOB_STORE :
          ( /\ JOB_STORE[j].assigned_contractor_id # None
            /\ AcceptedFor(j) )
          => /\ outbox' = <<>>
             /\ crm'.result = "none"]_vars

\* C3: with job A1 assigned to X, the outcome of Y's reply "YES A1" names X,
\* the contractor the job is already assigned to, not Y.
C3_ReportsOriginalAssignee ==
    [][( /\ "A1" \in DOMAIN JOB_STORE
         /\ JOB_STORE["A1"].assigned_contractor_id = "X"
         /\ request'.kind = "contractor_reply"
         /\ request'.payload.contact_id = "Y"
         /\ request'.payload.custom_job_id = NoneText
         /\ request'.payload.message_kind = "object"
         /\ request'.payload.message = <<"Y","E","S"," ","A","1">> )
       => /\ response'.job_id = "A1"
          /\ response'.contractor_id = "X"
          /\ response'.contractor_name = JOB_STORE["A1"].assigned_contractor_name]_vars

\* C4: racing acceptances are first-write-wins.  When a reply handler that was
\* parked while another reply first assigned job j is resumed and accepted for
\* j, the job keeps the assignee that was written first.
C4_FirstWriteWins ==
    [][\A r \in Slots : \A j \in DOMAIN JOB_STORE :
          ( /\ pc[r] = "contractor_reply"
            /\ pc'[r] = "idle"
            /\ r \in racing[j]
            /\ JOB_STORE[j].assigned_contractor_id # None
            /\ AcceptedFor(j) )
          => JOB_STORE'[j].assigned_contractor_id
                = JOB_STORE[j].assigned_contractor_id]_vars

\* C5: assigned is terminal.  A stored job whose assigned contractor id is not
\* null is, after every operation, still stored with a non-null assigned
\* contractor id.
C5_AssignedIsTerminal ==
    [][\A j \in DOMAIN JOB_STORE :
          JOB_STORE[j].assigned_contractor_id # None
          => /\ j \in DOMAIN JOB_STORE'
             /\ JOB_STORE'[j].assigned_contractor_id # None]_vars

\* the members of a Python list
Members(l) == {l[i] : i \in 1..Len(l)}

\* C6: the notified set recorded under a job identifier only grows: after
\* every operation it is a superset of what it was before.
C6_NotifiedOnlyGrows ==
    [][\A j \in DOMAIN JOB_STORE :
          /\ j \in DOMAIN JOB_STORE'
          /\ Members(JOB_STORE[j].notified_contractors)
                \subseteq Members(JOB_STORE'[j].notified_contractors)]_vars

\* C7: no operation removes a job: a key of the job store stays a key after
\* every dispatch, contractor-reply, quote and debug operation.
C7_NoJobRemoved ==
    [][DOMAIN JOB_STORE \subseteq DOMAIN JOB_STORE']_vars

\* C7 witness: two jobs are stored and a later reply, quote or debug operation
\* has run.
C7_Witness ==
    /\ DOMAIN JOB_STORE = {"A1", "A2"}
    /\ response.op \in {"contractor_reply", "get_cleaning_quote", "debug_jobs"}

\* the last handler body was a contractor_reply that got as far as its text
RepliedWith(p) ==
    /\ request.kind = "contractor_reply"
    /\ request.payload = p
    /\ ~RawMessageRaises(p)

\* the second token of a text that reads YES <token> ..., in any letter case
YesToken(p) ==
    LET parts == Split(Strip(MessageText(p)))
    IN  IF Len(parts) >= 2 /\ Str(Upper(parts[1])) = "YES"
        THEN Str(parts[2]) ELSE None

\* the job identifier a reply carries: in its metadata, or as YES <id>
CarriedJobId(p) ==
    IF Truthy(ExplicitJobId(p)) THEN ExplicitJobId(p) ELSE YesToken(p)

\* C8: a reply whose job identifier was resolved (from metadata or from
\* YES <id>) while no job is stored under it fails with job_not_found.
C8_UnknownJobNotFound ==
    \A p \in ReplyPayloads :
        ( /\ RepliedWith(p)
          /\ Truthy(CarriedJobId(p))
          /\ CarriedJobId(p) \notin DOMAIN JOB_STORE )
        => /\ ~response.ok
           /\ response.reason = "job_not_found"

\* the reply was accepted for the job stored under id, which is now assigned
\* to the replying contact
ResolvedTo(p, id) ==
    /\ response.ok
    /\ response.job_id = id
    /\ response.contractor_id = p.contact_id
    /\ JOB_STORE[id].assigned_contractor_id = p.contact_id

TimeOf(iso) == CHOOSE t \in Times : isoformat(t) = iso

\* the stored jobs whose notified list holds the contact
NotifiedJobs(contact_id) ==
    {j \in DOMAIN JOB_STORE : contact_id \in Members(JOB_STORE[j].notified_contractors)}

\* a bare affirmative without an explicit job identifier
BareAffirmative(p) ==
    /\ ~Truthy(ExplicitJobId(p))
    /\ Str(Upper(Strip(MessageText(p)))) \in {"YES", "Y", "YEA", "YEAH", "YEP"}

RepliesNow ==
    /\ request'.kind = "contractor_reply"
    /\ ~RawMessageRaises(request'.payload)

\* C11: a reply with no explicit job identifier whose text is neither
\* YES <token> nor one of the affirmative words ends with invalid_format and
\* leaves every field of every stored job as it was.
C11_InvalidFormatMutatesNothing ==
    [][( /\ RepliesNow
         /\ ~Truthy(ExplicitJobId(request'.payload))
         /\ YesToken(request'.payload) = None
         /\ ~BareAffirmative(request'.payload) )
       => /\ ~response'.ok
          /\ response'.reason = "invalid_format"
          /\ JOB_STORE' = JOB_STORE]_vars

\* C11 witness: contractor X, notified of the pending job A1, replied "maybe"
\* and got invalid_format.
C11_Witness ==
    /\ request.kind = "contractor_reply"
    /\ request.payload.contact_id = "X"
    /\ request.payload.custom_job_id = NoneText
    /\ request.payload.message_kind = "object"
    /\ request.payload.message = <<"m","a","y","b","e">>
    /\ response.reason = "invalid_format"
    /\ "A1" \in DOMAIN JOB_STORE
    /\ "X" \in Members(JOB_STORE["A1"].notified_contractors)
    /\ JOB_STORE["A1"].assigned_contractor_id = None

\* C12: an explicit job identifier in the reply's metadata, non-empty after
\* trimming, takes priority over the text: whatever the message says, the job
\* an accepted reply resolves to and assigns is the one with that identifier.
C12_ExplicitIdPriority ==
    [][( /\ RepliesNow
         /\ Truthy(ExplicitJobId(request'.payload))
         /\ response'.ok )
       => /\ response'.job_id = ExplicitJobId(request'.payload)
          /\ \A j \in DOMAIN JOB_STORE :
                j # ExplicitJobId(request'.payload) => JOB_STORE'[j] = JOB_STORE[j]]_vars

\* the step is a handler body that ended with a non-success outcome: a
\* contractor_reply that failed, or a dispatch that found no contractors
FailsNow ==
    \/ /\ response'.op = "contractor_reply"
       /\ ~response'.ok
       /\ response'.reason \in {"invalid_format", "job_not_found_for_contractor",
                                "job_not_found"}
    \/ /\ response'.op = "dispatch"
       /\ response'.reason = "no_contractors"

\* C13: every non-success outcome of a contractor-reply and the no_contractors
\* outcome of dispatch leave the assigned-contractor fields and the notified
\* set of every job that was stored before unchanged.
C13_FailuresChangeNoJob ==
    [][FailsNow =>
          \A j \in DOMAIN JOB_STORE :
             /\ j \in DOMAIN JOB_STORE'
             /\ JOB_STORE'[j].assigned_contractor_id
                    = JOB_STORE[j].assigned_contractor_id
             /\ JOB_STORE'[j].assigned_contractor_name
                    = JOB_STORE[j].assigned_contractor_name
             /\ Members(JOB_STORE'[j].notified_contractors)
                    = Members(JOB_STORE[j].notified_contractors)]_vars

\* C14: a booking dispatched without a job identifier is never put in the job
\* store, and no reply ever assigns it: its dispatch leaves the store as it
\* was, every stored job is stored under its own non-empty identifier, and an
\* accepted reply assigns one of the jobs that were stored before it.
C14_UnidentifiedJobNeverStored ==
    [][/\ ( /\ request'.kind = "dispatch"
            /\ ~Truthy(request'.payload.appointmentId) )
          => JOB_STORE' = JOB_STORE
       /\ \A k \in DOMAIN JOB_STORE' :
             /\ Truthy(k)
             /\ JOB_STORE'[k].job_id = k
       /\ ( /\ response'.op = "contractor_reply"
            /\ response'.ok )
          => /\ response'.job_id \in DOMAIN JOB_STORE
             /\ \A k \in DOMAIN JOB_STORE :
                   k # response'.job_id => JOB_STORE'[k] = JOB_STORE[k]]_vars

\* C14 witness: a booking without an identifier was broadcast to X and Y, and
\* the store still holds the job A1 alone.
C14_Witness ==
    /\ request.kind = "dispatch"
    /\ request.payload.appointmentId = None
    /\ response.notified = <<"X", "Y">>
    /\ Len(outbox) = 2
    /\ DOMAIN JOB_STORE = {"A1"}

\* C15: when a booking has no job identifier, the outcome dispatch returns is
\* not the success outcome of a stored and broadcast booking: its status is
\* not ok, or it carries a reason.
C15_UnstoredIsSurfaced ==
    ( /\ request.kind = "dispatch"
      /\ ~Truthy(request.payload.appointmentId) )
    => ~( /\ response.ok
          /\ response.reason = None )

\* C16: when the eligible contractor list is empty at dispatch time, dispatch
\* answers without failing (HTTP 200) with reason no_contractors, sends no
\* message, and a job with a non-empty identifier is afterwards in the store,
\* pending and with an empty notified set.
C16_NoContractors ==
    ( /\ request.kind = "dispatch"
      /\ request.contractors = <<>> )
    => /\ response.http = 200
       /\ response.reason = "no_contractors"
       /\ outbox = <<>>
       /\ Truthy(request.payload.appointmentId)
          => /\ request.payload.appointmentId \in DOMAIN JOB_STORE
             /\ LET job == JOB_STORE[request.payload.appointmentId]
                IN  /\ job.assigned_contractor_id = None
                    /\ job.assigned_contractor_name = None
                    /\ job.notified_contractors = <<>>

\* C16 witness: booking A1 was dispatched to an empty contractor list while
\* another job, A2, is stored and assigned.
C16_Witness ==
    /\ request.kind = "dispatch"
    /\ request.payload.appointmentId = "A1"
    /\ request.contractors = <<>>
    /\ response.reason = "no_contractors"
    /\ DOMAIN JOB_STORE = {"A1", "A2"}
    /\ JOB_STORE["A2"].assigned_contractor_id # None
    /\ JOB_STORE["A1"].notified_contractors = <<>>

\* x is one of the pieces of a message text
Contains(text, x) == \E i \in 1..Len(text) : text[i] = x

\* digits, a point and two digits
TwoDecimals(cs) ==
    /\ Len(cs) >= 4
    /\ cs[Len(cs) - 2] = "."
    /\ \A i \in (1..Len(cs)) \ {Len(cs) - 2} : \E n \in 0..9 : cs[i] = Digit(n)

\* the text reads: Reply YES <id> to accept
Instructs(text, id) ==
    \E k \in 1..(Len(text) - 2) :
        /\ text[k] = "\n\nReply YES "
        /\ text[k + 1] = id
        /\ text[k + 2] = " to accept."

\* C17: every broadcast message dispatch sends contains the customer name, the
\* service type, the start time or "TBD", the price with two decimals and the
\* instruction "Reply YES <job_id> to accept" with the identifier of the job it
\* announces, and contains neither the access method nor the access notes of
\* the booking.
C17_BroadcastContent ==
    \A i \in 1..Len(outbox) :
        outbox[i].kind = "broadcast"
        => LET text == outbox[i].text
               job == response.job
               price == Format2fChars(job.estimated_price)
           IN  /\ Contains(text, job.customer_name)
               /\ Contains(text, job.service_type)
               /\ Contains(text, job.start_time) \/ Contains(text, "TBD")
               /\ TwoDecimals(price)
               /\ Contains(text, Str(price)) \/ Contains(text, "$" \o Str(price))
               /\ Instructs(text, PyStr(job.job_id))
               /\ Truthy(request.payload.access_method)
                  => ~Contains(text, request.payload.access_method)
               /\ Truthy(request.payload.access_notes)
                  => ~Contains(text, request.payload.access_notes)

\* a directory entry with both an id and a phone
HasIdAndPhone(c) == c.id # None /\ c.id # "" /\ c.phone # None /\ c.phone # ""

\* the ids of the entries of a directory that have an id and a phone, in order
EligibleIds(d) == Ids(SelectSeq(d, HasIdAndPhone))

\* the recipients of the messages sent, in order
SentTo == [i \in 1..Len(outbox) |-> outbox[i].to]

\* C18: the fan-out of dispatch is best effort: whatever the outcome of each
\* send (201, another status, an exception), one broadcast is attempted for
\* every contractor of the fetched list that has an id and a phone, in the
\* order of the list, and the job's notified list is exactly those ids in
\* that order.
C18_FanOutBestEffort ==
    ( /\ request.kind = "dispatch"
      /\ request.contractors # <<>> )
    => /\ SentTo = EligibleIds(request.contractors)
       /\ \A i \in 1..Len(outbox) : outbox[i].kind = "broadcast"
       /\ response.ok
       /\ response.notified = EligibleIds(request.contractors)
       /\ response.job.notified_contractors = EligibleIds(request.contractors)
       /\ Truthy(response.job_id)
          => JOB_STORE[response.job_id].notified_contractors
                = EligibleIds(request.contractors)

\* C18 witness: the send to X, the first contractor, raised an exception and
\* the broadcast to Y was attempted after it; both are in the notified list
\* of the stored job.
C18_Witness ==
    /\ request.kind = "dispatch"
    /\ Len(outbox) = 2
    /\ outbox[1].to = "X"
    /\ outbox[1].status = "exception"
    /\ outbox[2].to = "Y"
    /\ JOB_STORE["A1"].notified_contractors = <<"X", "Y">>

\* a list without the occurrences of x
RECURSIVE Without(_, _)
Without(l, x) ==
    IF l = <<>> THEN <<>>
    ELSE IF Head(l) = x THEN Without(Tail(l), x)
    ELSE <<Head(l)>> \o Without(Tail(l), x)

\* the last handler body was a contractor_reply that assigned a job to the
\* replying contractor
AssignedNow ==
    /\ request.kind = "contractor_reply"
    /\ response.ok
    /\ Truthy(request.payload.contact_id)

\* C19: after a successful assignment the side effects are attempted in the
\* order (1) confirmation to the accepting contractor, (2) "claimed" to the
\* other contractors, (3) customer notification, (4) CRM write-back, and
\* whatever the outcome of each of them, the later ones are attempted and the
\* job stays assigned to the accepting contractor.
C19_SideEffectsInOrder ==
    AssignedNow
    => LET me == request.payload.contact_id
           job == JOB_STORE[response.job_id]
           others == Without(EligibleIds(request.contractors), me)
           n == Len(others)
       IN  /\ job.assigned_contractor_id = me
           /\ job.assigned_contractor_name = response.contractor_name
           /\ Len(outbox) = 1 + n + (IF Truthy(job.contact_id) THEN 1 ELSE 0)
           /\ outbox[1].kind = "confirm"
           /\ outbox[1].to = me
           /\ \A i \in 1..n : /\ outbox[1 + i].kind = "claimed"
                               /\ outbox[1 + i].to = others[i]
           /\ Truthy(job.contact_id)
              => /\ outbox[n + 2].kind = "customer"
                 /\ outbox[n + 2].to = job.contact_id
           /\ crm.result # "none"
           /\ crm.job_id = response.job_id
           /\ crm.contractor_id = me
           /\ crm.after = Len(outbox)

\* C19 witness: Y accepted A1; the confirmation, the "claimed" message to X,
\* the customer notification and the CRM write-back all failed, each was
\* attempted, and A1 is assigned to Y.
C19_Witness ==
    /\ AssignedNow
    /\ request.payload.contact_id = "Y"
    /\ Len(outbox) = 3
    /\ outbox[1].kind = "confirm" /\ outbox[1].status = "500"
    /\ outbox[2].kind = "claimed" /\ outbox[2].status = "exception"
    /\ outbox[3].kind = "customer" /\ outbox[3].status = "500"
    /\ crm.result = "failed"
    /\ JOB_STORE["A1"].assigned_contractor_id = "Y"

IsClaimed(m) == m.kind = "claimed"

\* the recipients of the "claimed by another contractor" messages sent, in order
ClaimedTo ==
    LET claimed == SelectSeq(outbox, IsClaimed)
    IN  [i \in 1..Len(claimed) |-> claimed[i].to]

\* C20: on a successful assignment the "claimed by another contractor" message
\* goes to every contractor of the list fetched by the handler that has an id
\* and a phone and is not the accepting contractor, and never to the accepting
\* contractor.
C20_ClaimedToOthers ==
    ( /\ request.kind = "contractor_reply"
      /\ response.ok )
    => /\ ClaimedTo = Without(EligibleIds(request.contractors),
                              request.payload.contact_id)
       /\ \A i \in 1..Len(outbox) :
             outbox[i].kind = "claimed" => outbox[i].to # request.payload.contact_id

\* C20 witness: X accepted while the directory held X, an entry without a
\* phone, an entry without an id, and Y: the one "claimed" message went to Y.
C20_Witness ==
    /\ request.kind = "contractor_reply"
    /\ response.ok
    /\ request.payload.contact_id = "X"
    /\ Len(request.contractors) = 4
    /\ ClaimedTo = <<"Y">>

\* the last handler body was a contractor_reply that resolved a job, assigned
\* it to the replying contractor and went on to the write-back, which met
\* outcome o
WroteBack(o) ==
    /\ request.kind = "contractor_reply"
    /\ crm.result = o

\* C21: when the write-back cannot locate the CRM job record, or its update
\* fails, the contractor-reply still returns the success outcome (ok, job id,
\* contractor id, contractor name) and the stored job keeps the assignment.
C21_WriteBackNotFatal ==
    \A o \in CrmFaults \ {"ok"} :
        WroteBack(o)
        => /\ response.http = 200
           /\ response.ok
           /\ response.job_id = crm.job_id
           /\ response.contractor_id = crm.contractor_id
           /\ response.contractor_name = crm.contractor_name
           /\ JOB_STORE[crm.job_id].assigned_contractor_id = crm.contractor_id

\* the job a handler inside its body is working on
JobInHand ==
    IF request.kind = "dispatch" THEN request.payload.appointmentId
    ELSE Resolve(request.payload, JOB_STORE, jobKeys).job_id

\* C22: requests for different job identifiers are not serialized: while one
\* handler is inside its body for a job, a handler that has been entered with
\* a request for a different job can take its next step; it does not wait for
\* the first to finish.
C22_NotSerialized ==
    \A r \in Slots, s \in Slots :
        ( r # s /\ InBody(r) )
        => /\ \A p \in StepBookings :
                 ( pc[s] = "dispatch" /\ p.appointmentId # JobInHand )
                 => ENABLED dispatch_store(s, p)
           /\ \A p \in StepPayloads :
                 ( pc[s] = "contractor_reply" /\ ParseTable[p].job_id # JobInHand )
                 => ENABLED contractor_reply_resolve(s, p)

\* C23: a contractor-reply whose input is malformed (unrecognised text, a
\* missing or unparseable job identifier, or a "message" that is a plain
\* string with no customData body) is answered with a structured outcome,
\* success or a reason, and never ends in an unhandled exception (HTTP 500).
C23_MalformedReplyHandled ==
    request.kind = "contractor_reply"
    => /\ response.http = 200
       /\ response.ok \/ response.reason # None

(***************************************************************************)
(* The quote lookup.                                                       *)
(***************************************************************************)
\* the handler body that ran last is a quote lookup
Quoted == request.kind = "get_cleaning_quote"

\* the lookup reached the candidate generation: the phone is not blank and
\* the location id is set
Searched ==
    /\ Quoted
    /\ request.lookup.location
    /\ Strip(request.lookup.phone) # <<>>

\* the CRM's answer to the i-th probe has no contacts: the call failed, the
\* status was not 2xx, the body was not JSON, or it listed no contact
Skipped(i) ==
    \/ request.lookup.answers[i].kind \in {"exception", "status", "not_json"}
    \/ /\ request.lookup.answers[i].kind = "object"
       /\ request.lookup.answers[i].contacts = <<>>

\* the CRM's answer to the i-th probe lists at least one contact
Hit(i) ==
    /\ request.lookup.answers[i].kind = "object"
    /\ request.lookup.answers[i].contacts # <<>>

\* every updatedAt in the i-th answer is a string or absent
Comparable(i) ==
    \A k \in 1..Len(request.lookup.answers[i].contacts) :
        request.lookup.answers[i].contacts[k].updatedAt # NoneText

\* the ids of the contacts of the i-th answer that no other contact of the
\* answer was updated after
LatestContacts(i) ==
    LET cs == request.lookup.answers[i].contacts IN
    { cs[k].id : k \in { k \in 1..Len(cs) :
                           \A l \in 1..Len(cs) :
                               ~StrLess(cs[k].updatedAt, cs[l].updatedAt) } }

C29_CandidatesDistinct ==
    Searched =>
        LET c == crm.candidates
            digits == Digits(request.lookup.phone)
        IN  /\ \A i \in 1..Len(c), j \in 1..Len(c) : i # j => c[i] # c[j]
            /\ Len(digits) = 10
                  => /\ \E i \in 1..Len(c) : c[i] = digits
                     /\ \E i \in 1..Len(c) : c[i] = <<"+", "1">> \o digits

\* the lookup of "(602) 290-4816" generated 6022904816 and +16022904816
C29_Witness ==
    /\ Searched
    /\ request.lookup.phone = <<"(","6","0","2",")"," ","2","9","0","-","4","8","1","6">>
    /\ crm.candidates = << <<"+","6","0","2","2","9","0","4","8","1","6">>, <<"6","0","2","2","9","0","4","8","1","6">>, <<"+","1","6","0","2","2","9","0","4","8","1","6">> >>

Matched == Quoted /\ response.log.contact_id # None

\* the contact the lookup found
MatchedContact ==
    CHOOSE k \in UNION { { request.lookup.answers[i].contacts[j] :
                             j \in 1..Len(request.lookup.answers[i].contacts) } :
                         i \in 1..3 } :
        k.id = response.log.contact_id

\* the opportunities of the matched contact that carry a pricing signal
PricedOpportunities ==
    { i \in 1..Len(MatchedContact.opportunities) :
          HasAnyPricing(MatchedContact.opportunities[i]) }

\* C26: a lookup that finds a contact with no opportunities, or with none that
\* carries a price, is answered pending
C26_NoOpportunityPending ==
    ( Matched /\ PricedOpportunities = {} ) => response.status = "pending"

\* the search raises: the first probe with an answer returned a JSON list, or
\* several contacts of which one has a null updatedAt
SearchRaises ==
    /\ Searched
    /\ \E i \in 1..Len(crm.candidates) :
          /\ \A j \in 1..(i - 1) : Skipped(j)
          /\ \/ request.lookup.answers[i].kind = "list"
             \/ /\ Hit(i)
                /\ Len(request.lookup.answers[i].contacts) > 1
                /\ ~Comparable(i)

\* C27: every quote lookup is answered with HTTP 200 and one of the four
\* statuses, and a lookup in which the contact search raises is answered error
C27_NeverPropagates ==
    Quoted => /\ response.http = 200
              /\ response.status \in QuoteStatuses
              /\ SearchRaises => response.status = "error"

\* the first probe listed nothing, the second returned a JSON list, and the
\* answer was error
C27_Witness ==
    /\ SearchRaises
    /\ Skipped(1)
    /\ request.lookup.answers[2].kind = "list"
    /\ Len(crm.probed) = 2
    /\ response.status = "error"

\* the lookup selected an opportunity of the matched contact
Priced == Matched /\ response.log.opportunity_id # None

\* the opportunity the lookup selected
SelectedNow ==
    CHOOSE o \in { MatchedContact.opportunities[i] :
                     i \in 1..Len(MatchedContact.opportunities) } :
        o.id = response.log.opportunity_id

\* C24: for a matched contact with a priced opportunity the status is ready
\* when the response carries a first-clean price, a recurring price and a
\* non-empty frequency label, and pending otherwise; each of the three comes
\* from the breakdown text, the opportunity's fields or the contact's custom
\* fields
C24_ReadyWhenResolved ==
    Priced =>
        LET o == SelectedNow
            parsed == IF o.price_breakdown.t = "str"
                      THEN parse_simplified_price_breakdown(o.price_breakdown.s)
                      ELSE [first_clean_price |-> Null, recurring_price |-> Null,
                            frequency_label |-> Null]
            custom == extract_contact_pricing_from_custom_fields(MatchedContact)
        IN  /\ response.status \in {"ready", "pending"}
            /\ response.status = "ready"
                  <=> /\ response.first_clean_price # Null
                      /\ response.recurring_price # Null
                      /\ NonBlank(response.frequency_label)
            /\ response.first_clean_price
                  \in {Null, parsed.first_clean_price, ToFloat(o.estimated_price),
                       ToFloat(o.monetaryValue)}
            /\ response.recurring_price
                  \in {Null, parsed.recurring_price, ToFloat(o.recurring_price),
                       custom.recurring_price}
            /\ response.frequency_label
                  \in {Null, parsed.frequency_label, custom.frequency_label}
                      \cup { Text(Strip(o.cleaning_frequency.s)) }

\* a quote that is ready although the opportunity carries only a monetary
\* value: the recurring price and the frequency come from the custom fields
C24_Witness ==
    /\ Priced
    /\ response.status = "ready"
    /\ SelectedNow.estimated_price = Null
    /\ SelectedNow.recurring_price = Null
    /\ SelectedNow.price_breakdown = Null
    /\ SelectedNow.cleaning_frequency = Null
    /\ response.first_clean_price = Num(18000)
    /\ response.recurring_price = Num(13000)
    /\ response.frequency_label = Text(<<"M","o","n","t","h","l","y">>)

\* the priced opportunities the selection is made among: the open ones (status
\* not won, lost or abandoned) when there is one, else all
SelectionPool ==
    LET open == { i \in PricedOpportunities :
                    MatchedContact.opportunities[i].status
                        \notin {"won", "lost", "abandoned"} }
    IN  IF open # {} THEN open ELSE PricedOpportunities

\* C30: the opportunity the quote is read from is a most recently updated one
\* among the priced open opportunities, or among all priced ones when none is
\* open
C30_PrefersOpen ==
    Priced =>
        \E i \in SelectionPool :
            /\ MatchedContact.opportunities[i].id = response.log.opportunity_id
            /\ \A j \in SelectionPool :
                  ~StrLess(OppSortKey(MatchedContact.opportunities[i]),
                           OppSortKey(MatchedContact.opportunities[j]))

\* the handler that ran last is a dispatch of a booking with its price fields
PricedNow == request.kind = "dispatch" /\ "price_breakdown" \in DOMAIN request.payload

\* the direct estimated-price field of a booking as a number, None when it is
\* absent or does not parse
DirectPrice(p) ==
    LET raw == IF PyTruthy(p.est_contact) THEN p.est_contact ELSE p.est_plain
    IN  IF PyTruthy(raw) THEN ToFloat(raw) ELSE Null

\* the text after the last colon of a line; empty when the line has no colon
AfterLastColon(line) ==
    LET colons == {i \in 1..Len(line) : line[i] = ":"}
    IN  IF colons = {} THEN <<>>
        ELSE SubSeq(line, (CHOOSE i \in colons : \A j \in colons : j <= i) + 1,
                    Len(line))

\* the numbers after the last colon of the breakdown lines containing "Total"
TotalNumbers(p) ==
    IF ~PyTruthy(p.price_breakdown) THEN {}
    ELSE LET lines == SplitLines(p.price_breakdown.s)
             total == [i \in 1..Len(lines) |-> ParseFloat(AfterLastColon(lines[i]))]
         IN  { total[i].n : i \in {i \in 1..Len(lines) :
                                      /\ IsSubstring(<<"T","o","t","a","l">>, lines[i])
                                      /\ total[i] # Null} }

\* C31: the price of a dispatched job is the direct estimated-price field when
\* that parses to a positive number; otherwise it is the number after the last
\* colon of a breakdown line containing "Total"; when there is no such number
\* it is 0, and the dispatch answers normally
C31_PriceResolution ==
    PricedNow =>
        LET p == request.payload
            price == response.job.estimated_price
        IN  /\ response.op = "dispatch"
            /\ response.http = 200
            /\ IF DirectPrice(p) # Null /\ DirectPrice(p).n > 0
               THEN price = DirectPrice(p).n
               ELSE IF TotalNumbers(p) # {} THEN price \in TotalNumbers(p)
               ELSE price = 0

\* C39: the estimated price of every job built from a booking payload, stored
\* or only returned, is at least zero
C39_PriceNonNegative ==
    /\ \A j \in DOMAIN JOB_STORE : JOB_STORE[j].estimated_price >= 0
    /\ response.op = "dispatch" => response.job.estimated_price >= 0

\* C33: the assigned contractor of a stored job, when there is one, is in the
\* job's notified set, also when the reply named the job by its identifier
C33_AssigneeWasNotified ==
    \A j \in DOMAIN JOB_STORE :
        JOB_STORE[j].assigned_contractor_id # None
        => InList(JOB_STORE[j].assigned_contractor_id,
                  JOB_STORE[j].notified_contractors)

\* C34: a reply that carries a job identifier, in its metadata or as
\* YES <id>, changes no stored job other than the one stored under that
\* identifier
C34_CarriedIdFrame ==
    [][( /\ RepliesNow
         /\ Truthy(CarriedJobId(request'.payload)) )
       => \A j \in DOMAIN JOB_STORE :
             j # CarriedJobId(request'.payload) => JOB_STORE'[j] = JOB_STORE[j]]_vars

\* C35: a confirmation with a job's access method and notes goes to one
\* contractor only: once the job is held by a contractor, who was sent its
\* confirmation, no step sends the job's confirmation to another contact
C35_AccessToOneContractor ==
    [][\A i \in 1..Len(outbox') :
          ( /\ outbox'[i].kind = "confirm"
            /\ outbox'[i].job_id \in DOMAIN JOB_STORE
            /\ Contains(outbox'[i].text,
                        Or(JOB_STORE[outbox'[i].job_id].access_method, "Not specified"))
            /\ JOB_STORE[outbox'[i].job_id].assigned_contractor_id # None )
          => outbox'[i].to = JOB_STORE[outbox'[i].job_id].assigned_contractor_id]_vars

\* C37: the dispatch of a booking without a job identifier, which is not
\* stored, sends no message that invites a reply YES ... to accept
C37_NoBroadcastForUnstored ==
    ( /\ request.kind = "dispatch"
      /\ ~Truthy(request.payload.appointmentId) )
    => \A i \in 1..Len(outbox) :
          ~\E k \in 1..(Len(outbox[i].text) - 2) :
              /\ outbox[i].text[k] = "\n\nReply YES "
              /\ outbox[i].text[k + 2] = " to accept."

\* C38: the assigned contractor id of a stored job is null exactly when its
\* assigned contractor name is null
C38_IdAndNameTogether ==
    \A j \in DOMAIN JOB_STORE :
        JOB_STORE[j].assigned_contractor_id = None
        <=> JOB_STORE[j].assigned_contractor_name = None

\* a handler body is running or has just returned
Running == request.kind \in {"dispatch", "contractor_reply"} /\ "returned" \in DOMAIN request

\* the running body has returned (or raised) and its response is set
Returned == Running /\ request.returned /\ response.op = request.kind

\* the recipients of the fan-out messages of the running body, in order: the
\* broadcasts of a dispatch, the "claimed" messages of a reply
FannedOutTo ==
    LET FanOut(m) == m.kind \in {"broadcast", "claimed"}
        sent == SelectSeq(outbox, FanOut)
    IN  [i \in 1..Len(sent) |-> sent[i].to]

\* C32: every dispatch and every contractor reply that was started returns
\* with a response, whatever the length of the contractor list and however
\* each send ends; and when it returns after its fan-out, one message was
\* attempted for every contractor of the list with an id and a phone (for a
\* reply: other than the replier), once each and in the order of the list
C32_FanOutTerminates ==
    /\ Running ~> Returned
    /\ []( ( /\ Returned
             /\ request.kind = "dispatch"
             /\ request.contractors # <<>> )
           => FannedOutTo = EligibleIds(request.contractors) )
    /\ []( ( /\ Returned
             /\ request.kind = "contractor_reply"
             /\ request.job.job_id # None )
           => FannedOutTo = Without(EligibleIds(request.contractors),
                                    request.payload.contact_id) )

\* C32 witness: a dispatch returned after the send to X, the first of four
\* directory entries, raised an exception and the send to Y got a 500
C32_Witness ==
    /\ Returned
    /\ request.kind = "dispatch"
    /\ Len(request.contractors) = 4
    /\ request.visited = 4
    /\ Len(outbox) = 2
    /\ outbox[1].status = "exception"
    /\ outbox[2].status = "500"
    /\ response.notified = <<"X", "Y">>

\* C36: whenever a contractor has been sent a broadcast inviting YES <id> for
\* a non-empty id, a job is stored under that id, and it was stored before the
\* step that sent the message
C36_StoredBeforeBroadcast ==
    [][\A i \in 1..Len(outbox') :
          ( /\ outbox'[i].kind = "broadcast"
            /\ Truthy(outbox'[i].job_id)
            /\ Instructs(outbox'[i].text, outbox'[i].job_id) )
          => /\ outbox'[i].job_id \in DOMAIN JOB_STORE'
             /\ JOB_STORE'[outbox'[i].job_id].job_id = outbox'[i].job_id
             /\ outbox'[i].job_id \in DOMAIN JOB_STORE]_vars

\* C36 witness: inside the broadcast loop of the dispatch of A1, X has been
\* sent the invitation, Y not yet, and A1 is in the store
C36_Witness ==
    /\ Running
    /\ request.kind = "dispatch"
    /\ ~request.returned
    /\ request.visited < Len(request.contractors)
    /\ Len(outbox) = 1
    /\ outbox[1].to = "X"
    /\ Instructs(outbox[1].text, "A1")
    /\ "A1" \in DOMAIN JOB_STORE
    /\ JOB_STORE["A1"].notified_contractors = <<"X">>

====
